---------------------------- MODULE Spec2Model ----------------------------
(***************************************************************************)
(* Query execution and normalisation engine of the multi-database query    *)
(* workbench: statement splitter, statement classifier, safety analyser,   *)
(* query executor / paginator (server/sql_engine.py) and the connector     *)
(* variants (server/db_connectors.py).                                     *)
(*                                                                         *)
(* Text is a sequence of one-character strings, so that the splitter and   *)
(* the regular expressions work on characters as the code does.            *)
(***************************************************************************)
EXTENDS Integers, Sequences, FiniteSets, TLC

(***************************************************************************)
(* Characters                                                              *)
(***************************************************************************)
LowerLetters == <<"a", "b", "c", "d", "e", "f", "g", "h", "i", "j", "k", "l", "m", "n", "o", "p", "q", "r", "s", "t", "u", "v", "w", "x", "y", "z">>

UpperLetters == <<"A", "B", "C", "D", "E", "F", "G", "H", "I", "J", "K", "L", "M", "N", "O", "P", "Q", "R", "S", "T", "U", "V", "W", "X", "Y", "Z">>

Digits == {"0", "1", "2", "3", "4", "5", "6", "7", "8", "9"}

Range(f) == {f[i] : i \in DOMAIN f}

SetMin(S) == CHOOSE x \in S : \A y \in S : x <= y

SetMax(S) == CHOOSE x \in S : \A y \in S : x >= y

LowerSet == Range(LowerLetters)

UpperOf == [c \in LowerSet |-> UpperLetters[CHOOSE i \in 1..26 : LowerLetters[i] = c]]

\* str.upper() / re.IGNORECASE folding of one character
Upper(c) == IF c \in LowerSet THEN UpperOf[c] ELSE c

UpperStr(s) == [i \in 1..Len(s) |-> Upper(s[i])]

SpaceChars == {" ", "\t", "\n", "\r"}

WordChars == Range(LowerLetters) \cup Range(UpperLetters) \cup Digits \cup {"_"}

\* the class \s of the re module and the characters str.strip() removes
IsSpace(c) == c \in SpaceChars

\* the class \w of the re module
IsWord(c) == c \in WordChars

\* str.strip()
strip(s) ==
    LET keep == {i \in 1..Len(s) : ~IsSpace(s[i])}
    IN  IF keep = {} THEN <<>> ELSE SubSeq(s, SetMin(keep), SetMax(keep))

\* `needle in haystack` on str
Contains(haystack, needle) ==
    \E i \in 1..(Len(haystack) - Len(needle) + 1) :
        SubSeq(haystack, i, i + Len(needle) - 1) = needle

(***************************************************************************)
(* The part of the re module the engine's patterns use.  A pattern is a    *)
(* sequence of elements; MatchFrom says whether elements k.. of the        *)
(* pattern match the text from position p (1-based; Len+1 is the end).     *)
(* Quantified elements are existential over the length they consume, which *)
(* is what backtracking decides.  All matching is case-insensitive         *)
(* (re.IGNORECASE).                                                        *)
(***************************************************************************)
Lit(v) == [t |-> "lit", v |-> <<v>>]

Alt(v, w) == [t |-> "lit", v |-> <<v, w>>]

El(t) == [t |-> t, v |-> <<>>]

CharAt(s, p) == IF p \in 1..Len(s) THEN s[p] ELSE ""

\* literal text at position p, ignoring case
LitAt(s, p, v) ==
    /\ p + Len(v) - 1 <= Len(s)
    /\ \A i \in 1..Len(v) : Upper(s[p + i - 1]) = Upper(v[i])

WordBoundary_Always(s, p) == TRUE

\* \b : exactly one of the characters around position p is a word character
WordBoundary(s, p) == IsWord(CharAt(s, p - 1)) # IsWord(CharAt(s, p))

\* $ without re.MULTILINE: the end, or just before a newline that ends the text
AtEnd(s, p) == p = Len(s) + 1 \/ (p = Len(s) /\ s[p] = "\n")

AllSpace(s, p, q) == \A i \in p..(q - 1) : IsSpace(s[i])

AllWord(s, p, q) == \A i \in p..(q - 1) : IsWord(s[i])

\* . without re.DOTALL matches anything but a newline
AllDot(s, p, q) == \A i \in p..(q - 1) : s[i] # "\n"

WHERE == <<"W", "H", "E", "R", "E">>

RECURSIVE MatchFrom(_, _, _, _)
MatchFrom(s, pat, k, p) ==
    IF k > Len(pat) THEN TRUE
    ELSE LET e == pat[k] IN
         CASE e.t = "lit"  -> \E j \in 1..Len(e.v) :
                                 LitAt(s, p, e.v[j]) /\ MatchFrom(s, pat, k + 1, p + Len(e.v[j]))
           [] e.t = "b"    -> WordBoundary(s, p) /\ MatchFrom(s, pat, k + 1, p)
           [] e.t = "^"    -> p = 1 /\ MatchFrom(s, pat, k + 1, p)
           [] e.t = "s+"   -> \E q \in (p + 1)..(Len(s) + 1) :
                                 AllSpace(s, p, q) /\ MatchFrom(s, pat, k + 1, q)
           [] e.t = "s*"   -> \E q \in p..(Len(s) + 1) :
                                 AllSpace(s, p, q) /\ MatchFrom(s, pat, k + 1, q)
           [] e.t = "w+"   -> \E q \in (p + 1)..(Len(s) + 1) :
                                 AllWord(s, p, q) /\ MatchFrom(s, pat, k + 1, q)
           [] e.t = ".*"   -> \E q \in p..(Len(s) + 1) :
                                 AllDot(s, p, q) /\ MatchFrom(s, pat, k + 1, q)
           [] e.t = ";|$"  -> \/ CharAt(s, p) = ";" /\ MatchFrom(s, pat, k + 1, p + 1)
                              \/ AtEnd(s, p) /\ MatchFrom(s, pat, k + 1, p)
           [] e.t = "(?!.*WHERE)" ->
                              /\ ~ \E q \in p..(Len(s) + 1) : AllDot(s, p, q) /\ LitAt(s, q, WHERE)
                              /\ MatchFrom(s, pat, k + 1, p)

\* re.search(pattern, s, re.IGNORECASE)
re_search(pat, s) == \E p \in 1..(Len(s) + 1) : MatchFrom(s, pat, 1, p)

\* re.match(pattern, s, re.IGNORECASE)
re_match(pat, s) == MatchFrom(s, pat, 1, 1)

(***************************************************************************)
(* Statement classifier and safety analyser                                *)
(***************************************************************************)
DROP == <<"D", "R", "O", "P">>

DATABASE == <<"D", "A", "T", "A", "B", "A", "S", "E">>

SCHEMA == <<"S", "C", "H", "E", "M", "A">>

TRUNCATE == <<"T", "R", "U", "N", "C", "A", "T", "E">>

TABLE == <<"T", "A", "B", "L", "E">>

DELETE == <<"D", "E", "L", "E", "T", "E">>

FROM == <<"F", "R", "O", "M">>

UPDATE == <<"U", "P", "D", "A", "T", "E">>

SET == <<"S", "E", "T">>

DANGEROUS_PATTERNS_DeleteAnywhere == <<
    [src |-> <<"\\", "b", "D", "R", "O", "P", "\\", "s", "+", "D", "A", "T", "A", "B", "A", "S", "E", "\\", "b">>,
     re  |-> <<El("b"), Lit(DROP), El("s+"), Lit(DATABASE), El("b")>>],
    [src |-> <<"\\", "b", "D", "R", "O", "P", "\\", "s", "+", "S", "C", "H", "E", "M", "A", "\\", "b">>,
     re  |-> <<El("b"), Lit(DROP), El("s+"), Lit(SCHEMA), El("b")>>],
    [src |-> <<"\\", "b", "T", "R", "U", "N", "C", "A", "T", "E", "\\", "s", "+", "T", "A", "B", "L", "E", "\\", "b">>,
     re  |-> <<El("b"), Lit(TRUNCATE), El("s+"), Lit(TABLE), El("b")>>],
    [src |-> <<"\\", "b", "D", "E", "L", "E", "T", "E", "\\", "s", "+", "F", "R", "O", "M", "\\", "s", "+", "\\", "w", "+">>,
     re  |-> <<El("b"), Lit(DELETE), El("s+"), Lit(FROM), El("s+"), El("w+")>>],
    [src |-> <<"\\", "b", "U", "P", "D", "A", "T", "E", "\\", "s", "+", "\\", "w", "+", "\\", "s", "+", "S", "E", "T", "\\", "s", "+", ".", "*", "?", "(", "?", ":", ";", "|", "$", ")", "(", "?", "!", ".", "*", "W", "H", "E", "R", "E", ")">>,
     re  |-> <<El("b"), Lit(UPDATE), El("s+"), El("w+"), El("s+"), Lit(SET), El("s+"),
               El(".*"), El(";|$"), El("(?!.*WHERE)")>>] >>

\* src is the pattern as written, re its compiled meaning
DANGEROUS_PATTERNS == <<
    [src |-> <<"\\", "b", "D", "R", "O", "P", "\\", "s", "+", "D", "A", "T", "A", "B", "A", "S", "E", "\\", "b">>,
     re  |-> <<El("b"), Lit(DROP), El("s+"), Lit(DATABASE), El("b")>>],
    [src |-> <<"\\", "b", "D", "R", "O", "P", "\\", "s", "+", "S", "C", "H", "E", "M", "A", "\\", "b">>,
     re  |-> <<El("b"), Lit(DROP), El("s+"), Lit(SCHEMA), El("b")>>],
    [src |-> <<"\\", "b", "T", "R", "U", "N", "C", "A", "T", "E", "\\", "s", "+", "T", "A", "B", "L", "E", "\\", "b">>,
     re  |-> <<El("b"), Lit(TRUNCATE), El("s+"), Lit(TABLE), El("b")>>],
    [src |-> <<"\\", "b", "D", "E", "L", "E", "T", "E", "\\", "s", "+", "F", "R", "O", "M", "\\", "s", "+", "\\", "w", "+", "\\", "s", "*", "(", "?", ":", ";", "|", "$", ")">>,
     re  |-> <<El("b"), Lit(DELETE), El("s+"), Lit(FROM), El("s+"), El("w+"), El("s*"),
               El(";|$")>>],
    [src |-> <<"\\", "b", "U", "P", "D", "A", "T", "E", "\\", "s", "+", "\\", "w", "+", "\\", "s", "+", "S", "E", "T", "\\", "s", "+", ".", "*", "?", "(", "?", ":", ";", "|", "$", ")", "(", "?", "!", ".", "*", "W", "H", "E", "R", "E", ")">>,
     re  |-> <<El("b"), Lit(UPDATE), El("s+"), El("w+"), El("s+"), Lit(SET), El("s+"),
               El(".*"), El(";|$"), El("(?!.*WHERE)")>>] >>

STATEMENT_PATTERNS == <<
    [kind |-> "select",          re |-> <<El("^"), El("s*"), Lit(<<"S", "E", "L", "E", "C", "T">>), El("b")>>],
    [kind |-> "insert",          re |-> <<El("^"), El("s*"), Lit(<<"I", "N", "S", "E", "R", "T">>), El("b")>>],
    [kind |-> "update",          re |-> <<El("^"), El("s*"), Lit(UPDATE), El("b")>>],
    [kind |-> "delete",          re |-> <<El("^"), El("s*"), Lit(DELETE), El("b")>>],
    [kind |-> "create_table",    re |-> <<El("^"), El("s*"), Lit(<<"C", "R", "E", "A", "T", "E">>), El("s+"), Lit(TABLE),
                                          El("b")>>],
    [kind |-> "create_database", re |-> <<El("^"), El("s*"), Lit(<<"C", "R", "E", "A", "T", "E">>), El("s+"),
                                          Alt(DATABASE, SCHEMA), El("b")>>],
    [kind |-> "alter_table",     re |-> <<El("^"), El("s*"), Lit(<<"A", "L", "T", "E", "R">>), El("s+"), Lit(TABLE),
                                          El("b")>>],
    [kind |-> "drop_table",      re |-> <<El("^"), El("s*"), Lit(DROP), El("s+"), Lit(TABLE),
                                          El("b")>>],
    [kind |-> "drop_database",   re |-> <<El("^"), El("s*"), Lit(DROP), El("s+"),
                                          Alt(DATABASE, SCHEMA), El("b")>>],
    [kind |-> "truncate",        re |-> <<El("^"), El("s*"), Lit(TRUNCATE), El("b")>>],
    [kind |-> "show",            re |-> <<El("^"), El("s*"), Lit(<<"S", "H", "O", "W">>), El("b")>>],
    [kind |-> "describe",        re |-> <<El("^"), El("s*"), Alt(<<"D", "E", "S", "C">>, <<"D", "E", "S", "C", "R", "I", "B", "E">>), El("b")>>],
    [kind |-> "explain",         re |-> <<El("^"), El("s*"), Lit(<<"E", "X", "P", "L", "A", "I", "N">>), El("b")>>],
    [kind |-> "use",             re |-> <<El("^"), El("s*"), Lit(<<"U", "S", "E">>), El("b")>>] >>

\* first kind, in declaration order, whose pattern matches; else 'unknown'
detect_statement_type(sql) ==
    LET sql_clean == UpperStr(strip(sql))
        hits == {k \in 1..Len(STATEMENT_PATTERNS) : re_match(STATEMENT_PATTERNS[k].re, sql_clean)}
    IN  IF hits = {} THEN "unknown" ELSE STATEMENT_PATTERNS[SetMin(hits)].kind

W_DROP == "This query will DROP an entire database!"

W_TRUNCATE == "This query will TRUNCATE a table (delete all rows)!"

W_DELETE == "This DELETE query has no WHERE clause - it will delete ALL rows!"

W_UPDATE == "This UPDATE query has no WHERE clause - it will update ALL rows!"

\* the warning the if/elif chain appends for a matching pattern (none when no branch applies)
WarningFor(src) ==
    IF Contains(src, <<"D", "R", "O", "P", " ", "D", "A", "T", "A", "B", "A", "S", "E">>) THEN <<W_DROP>>
    ELSE IF Contains(src, TRUNCATE) THEN <<W_TRUNCATE>>
    ELSE IF Contains(src, <<"D", "E", "L", "E", "T", "E", " ", "F", "R", "O", "M">>) THEN <<W_DELETE>>
    ELSE IF Contains(src, UPDATE) THEN <<W_UPDATE>>
    ELSE <<>>

RECURSIVE DangerLoop(_, _, _)
DangerLoop(sql, k, acc) ==
    IF k > Len(DANGEROUS_PATTERNS) THEN acc
    ELSE IF re_search(DANGEROUS_PATTERNS[k].re, sql)
         THEN DangerLoop(sql, k + 1,
                         [is_dangerous |-> TRUE,
                          warnings |-> acc.warnings \o WarningFor(DANGEROUS_PATTERNS[k].src)])
         ELSE DangerLoop(sql, k + 1, acc)

is_dangerous_query(sql) == DangerLoop(sql, 1, [is_dangerous |-> FALSE, warnings |-> <<>>])

(***************************************************************************)
(* Statement splitter                                                      *)
(***************************************************************************)
\* the backquote character (it cannot be written in a string of this language)
Backquote == "BACKQUOTE"

QuoteChars == {"\"", "'", Backquote}

SplitBranch_AnyQuoteCloses(char, in_string, string_char) ==
    IF char \in QuoteChars /\ ~in_string THEN "open"
    ELSE IF char \in QuoteChars /\ in_string THEN "close"
    ELSE IF char = ";" /\ ~in_string THEN "end"
    ELSE "other"

\* which branch of the if/elif chain of the loop body the character takes
SplitBranch(char, in_string, string_char) ==
    IF char \in QuoteChars /\ ~in_string THEN "open"
    ELSE IF char = string_char /\ in_string THEN "close"
    ELSE IF char = ";" /\ ~in_string THEN "end"
    ELSE "other"

\* statements.append(current_statement.strip()) if current_statement.strip()
AppendStripped(statements, current_statement) ==
    IF strip(current_statement) # <<>>
    THEN Append(statements, strip(current_statement))
    ELSE statements

RECURSIVE SplitLoop(_, _, _, _, _, _)
SplitLoop(sql, i, statements, current_statement, in_string, string_char) ==
    IF i > Len(sql)
    THEN AppendStripped(statements, current_statement)
    ELSE CASE SplitBranch(sql[i], in_string, string_char) = "open" ->
                SplitLoop(sql, i + 1, statements, Append(current_statement, sql[i]), TRUE, sql[i])
           [] SplitBranch(sql[i], in_string, string_char) = "close" ->
                SplitLoop(sql, i + 1, statements, Append(current_statement, sql[i]), FALSE, "")
           [] SplitBranch(sql[i], in_string, string_char) = "end" ->
                SplitLoop(sql, i + 1, AppendStripped(statements, current_statement), <<>>,
                          in_string, string_char)
           [] SplitBranch(sql[i], in_string, string_char) = "other" ->
                SplitLoop(sql, i + 1, statements, Append(current_statement, sql[i]),
                          in_string, string_char)

split_statements(sql) ==
    SelectSeq(SplitLoop(sql, 1, <<>>, <<>>, FALSE, ""), LAMBDA stmt : strip(stmt) # <<>>)

(***************************************************************************)
(* QueryResult (schemas.py).  An Optional field is <<>> for None and <<v>> *)
(* for the value v.                                                        *)
(***************************************************************************)
None == <<>>

Some(v) == <<v>>

QueryResultDefaults ==
    [type |-> "", queryType |-> None, columns |-> None, rows |-> None, rowCount |-> None,
     totalRows |-> None, page |-> None, pageSize |-> None, totalPages |-> None,
     executionTimeMs |-> 0, affectedRows |-> None, message |-> None, warnings |-> None,
     isDangerous |-> FALSE, results |-> None]

\* QueryResult(**given): the fields not given keep their defaults
QueryResult(given) ==
    [f \in DOMAIN QueryResultDefaults |->
        IF f \in DOMAIN given THEN given[f] ELSE QueryResultDefaults[f]]

(***************************************************************************)
(* Bounds of the model                                                     *)
(***************************************************************************)
MaxStatements == 2

MaxRows == 3

MaxPage == 2

MaxPageSize == 2

MaxRowcount == 1

(***************************************************************************)
(* The database driver as the engine sees it.  env is what the server does *)
(* with one statement: where the first failure happens, if any, the rows a *)
(* successful fetch returns and the row count the cursor reports.          *)
(* "unexpected_error" is connect() raising something that is not a         *)
(* mysql.connector.Error (a bad key in connection_config), the other       *)
(* errors are mysql.connector.Error raised by connect(), by the SET        *)
(* SESSION statement, by the statement itself or by commit().  The clock   *)
(* advances by one tick per driver call.                                   *)
(***************************************************************************)
AllRows(n) == [i \in 1..n |-> <<i>>]

Description == <<<<"id", 3>>>>


\* if stmt_type == 'select' or stmt_type in ['show', 'describe', 'explain']
IsSelectKind_SelectOnly(stmt_type) == stmt_type = "select"

IsSelectKind(stmt_type) == stmt_type = "select" \/ stmt_type \in {"show", "describe", "explain"}

Envs(stmt_type) ==
    {[outcome |-> o, all_rows |-> <<>>, rowcount |-> -1] :
        o \in {"unexpected_error", "connect_error", "timeout_error", "execute_error"}}
    \cup
    (IF IsSelectKind(stmt_type)
     THEN {[outcome |-> "ok", all_rows |-> AllRows(n), rowcount |-> n] : n \in 0..MaxRows}
     ELSE {[outcome |-> "commit_error", all_rows |-> <<>>, rowcount |-> -1]}
          \cup {[outcome |-> "ok", all_rows |-> <<>>, rowcount |-> r] : r \in (-1)..MaxRowcount})

DriverCall(op, arg) == [op |-> op, arg |-> arg]

\* timeout = 10 in __init__
Timeout == 10

SetTimeoutSql == <<"S", "E", "T", " ", "S", "E", "S", "S", "I", "O", "N", " ", "m", "a", "x", "_", "e", "x", "e", "c", "u", "t", "i", "o", "n", "_", "t", "i", "m", "e", "=", "1", "0", "0", "0", "0">>

\* the finally block of execute_single_statement: cursor.close(), then connection.close().
\* cursor.close() raises while the cursor holds a result set nobody read, and then
\* connection.close() is not reached
FinallyCalls(env) ==
    IF env.outcome = "unread_result"
    THEN <<DriverCall("cursor_close_failed", <<>>)>>
    ELSE <<DriverCall("close", <<>>)>>

\* the exception that leaves execute_single_statement ("" when it returns a result)
StatementRaises(env) == IF env.outcome = "unread_result" THEN "InternalError" ELSE ""

StatementCalls_NoCommit(sql, stmt_type, env) ==
    IF env.outcome \in {"unexpected_error", "connect_error"}
    THEN <<DriverCall("connect_failed", <<>>)>>
    ELSE <<DriverCall("connect", <<>>), DriverCall("execute", SetTimeoutSql)>>
         \o (IF env.outcome = "timeout_error" THEN <<>> ELSE <<DriverCall("execute", sql)>>)
         \o (IF env.outcome = "ok" /\ IsSelectKind(stmt_type)
             THEN <<DriverCall("fetchall", env.all_rows)>> ELSE <<>>)
         \o <<DriverCall("close", <<>>)>>

\* the driver calls one execute_single_statement makes, in order
StatementCalls(sql, stmt_type, env) ==
    IF env.outcome \in {"unexpected_error", "connect_error"}
    THEN <<DriverCall("connect_failed", <<>>)>>
    ELSE <<DriverCall("connect", <<>>), DriverCall("execute", SetTimeoutSql)>>
         \o (IF env.outcome = "timeout_error" THEN <<>> ELSE <<DriverCall("execute", sql)>>)
         \o (IF env.outcome = "ok" /\ IsSelectKind(stmt_type)
             THEN <<DriverCall("fetchall", env.all_rows)>> ELSE <<>>)
         \o (IF env.outcome \in {"timeout_error", "execute_error", "sql_error"}
                \/ IsSelectKind(stmt_type)
             THEN <<>>
             ELSE <<DriverCall(IF env.outcome \in {"commit_error", "unread_result"}
                               THEN "commit_failed" ELSE "commit",
                               <<>>)>>)
         \o FinallyCalls(env)

\* time.time() - start_time when the result is built (before the finally block), in ticks
Elapsed(sql, stmt_type, env) ==
    Len(SelectSeq(StatementCalls(sql, stmt_type, env), LAMBDA c : c.op # "close"))

(***************************************************************************)
(* Query executor / paginator                                              *)
(***************************************************************************)
\* index i of a slice bound clipped to 0..n as list slicing does
ClipIndex(i, n) == IF i < 0 THEN (IF n + i < 0 THEN 0 ELSE n + i) ELSE (IF i > n THEN n ELSE i)

\* list[start:end]
Slice(list, start, end) == SubSeq(list, ClipIndex(start, Len(list)) + 1, ClipIndex(end, Len(list)))

ErrorResult(message, execution_time, warnings, is_dangerous) ==
    QueryResult([type |-> "error", message |-> Some(message), executionTimeMs |-> execution_time,
                 warnings |-> Some(warnings), isDangerous |-> is_dangerous])

start_idx_NextPage(page, page_size) == page * page_size

start_idx(page, page_size) == (page - 1) * page_size

total_pages_NoMinimum(total_rows, page_size) == (total_rows + page_size - 1) \div page_size

total_pages(total_rows, page_size) ==
    IF total_rows > 0 THEN (total_rows + page_size - 1) \div page_size ELSE 1

_execute_select_query(sql, page, page_size, env, execution_time, warnings, is_dangerous) ==
    LET all_rows == env.all_rows
        total_rows == Len(all_rows)
        end_idx == start_idx(page, page_size) + page_size
        rows == Slice(all_rows, start_idx(page, page_size), end_idx)
    IN  QueryResult([type |-> "select", queryType |-> Some(detect_statement_type(sql)),
                          columns |-> Some([i \in 1..Len(Description) |->
                                               [name |-> Description[i][1],
                                                type |-> ToString(Description[i][2])]]),
                          rows |-> Some(rows), rowCount |-> Some(Len(rows)),
                          totalRows |-> Some(total_rows), page |-> Some(page),
                          pageSize |-> Some(page_size),
                          totalPages |-> Some(total_pages(total_rows, page_size)),
                          executionTimeMs |-> execution_time, warnings |-> Some(warnings),
                          isDangerous |-> is_dangerous])

_execute_write_query(sql, stmt_type, env, execution_time, warnings, is_dangerous) ==
    LET affected_rows == env.rowcount
        is_write == stmt_type \in {"insert", "update", "delete"}
    IN  QueryResult([type |-> IF is_write THEN "write" ELSE "ddl",
                     queryType |-> Some(stmt_type),
                     affectedRows |-> IF affected_rows >= 0 THEN Some(affected_rows) ELSE None,
                     executionTimeMs |-> execution_time,
                     message |-> Some(IF is_write /\ affected_rows >= 0
                                      THEN <<stmt_type, " completed successfully - ", affected_rows,
                                             " row(s) affected">>
                                      ELSE <<stmt_type, " completed successfully">>),
                     warnings |-> Some(warnings), isDangerous |-> is_dangerous])

\* the QueryResult execute_single_statement returns when the server behaves as env
execute_single_statement(sql, page, page_size, env) ==
    LET stmt_type == detect_statement_type(sql)
        danger == is_dangerous_query(sql)
        execution_time == Elapsed(sql, stmt_type, env)
    IN  IF env.outcome = "unexpected_error"
        THEN ErrorResult(<<"Unexpected error: ", env.outcome>>, execution_time,
                         danger.warnings, danger.is_dangerous)
        ELSE IF env.outcome # "ok"
        THEN ErrorResult(<<env.outcome>>, execution_time, danger.warnings, danger.is_dangerous)
        ELSE IF IsSelectKind(stmt_type)
        THEN _execute_select_query(sql, page, page_size, env, execution_time,
                                   danger.warnings, danger.is_dangerous)
        ELSE _execute_write_query(sql, stmt_type, env, execution_time,
                                  danger.warnings, danger.is_dangerous)

(***************************************************************************)
(* Request texts                                                           *)
(***************************************************************************)
S_SELECT == <<"S", "E", "L", "E", "C", "T", " ", "1">>

S_QUOTED == <<"S", "E", "L", "E", "C", "T", " ", "'", ";", "'", " ", "A", "S", " ", "a">>

S_SHOW == <<"S", "H", "O", "W", " ", "T", "A", "B", "L", "E", "S">>

S_INSERT == <<"I", "N", "S", "E", "R", "T", " ", "t", " ", "S", "E", "T", " ", "a", "=", "1">>

S_UPDATE_WHERE == <<"U", "P", "D", "A", "T", "E", " ", "t", "e", "s", "t", "_", "u", "s", "e", "r", "s", " ", "S", "E", "T", " ", "a", "g", "e", " ", "=", " ", "a", "g", "e", " ", "+", " ", "1", " ", "W", "H", "E", "R", "E", " ", "a", "g", "e", " ", "<", " ", "3", "0">>

S_DELETE_WHERE == <<"D", "E", "L", "E", "T", "E", " ", "F", "R", "O", "M", " ", "t", " ", "W", "H", "E", "R", "E", " ", "i", "d", "=", "1">>

S_DELETE_ALL == <<"D", "E", "L", "E", "T", "E", " ", "F", "R", "O", "M", " ", "t">>

S_CREATE == <<"C", "R", "E", "A", "T", "E", " ", "T", "A", "B", "L", "E", " ", "t", "(", "i", "d", " ", "I", "N", "T", ")">>

S_DROP_DB == <<"D", "R", "O", "P", " ", "D", "A", "T", "A", "B", "A", "S", "E", " ", "d">>

S_TRUNCATE == <<"T", "R", "U", "N", "C", "A", "T", "E", " ", "T", "A", "B", "L", "E", " ", "t">>

S_UPDATE_ALL == <<"U", "P", "D", "A", "T", "E", " ", "t", " ", "S", "E", "T", " ", "a", "=", "1">>

S_INSERT_T == <<"I", "N", "S", "E", "R", "T", " ", "I", "N", "T", "O", " ", "t", " ", "V", "A", "L", "U", "E", "S", " ", "(", "1", ")">>

S_SELECT_T == <<"S", "E", "L", "E", "C", "T", " ", "*", " ", "F", "R", "O", "M", " ", "t">>

S_WITH == <<"W", "I", "T", "H", " ", "x", " ", "A", "S", " ", "(", "S", "E", "L", "E", "C", "T", " ", "1", ")", " ", "S", "E", "L", "E", "C", "T", " ", "*", " ", "F", "R", "O", "M", " ", "x">>

S_SET == <<"S", "E", "T", " ", "N", "A", "M", "E", "S", " ", "u", "t", "f", "8">>

S_DESCRIBE == <<"d", "e", "s", "c", "r", "i", "b", "e", " ", "t">>

S_EXPLAIN == <<" ", "E", "X", "P", "L", "A", "I", "N", " ", "S", "E", "L", "E", "C", "T", " ", "1">>

StatementPool == {S_SELECT, S_QUOTED, S_SHOW, S_INSERT, S_UPDATE_WHERE, S_DELETE_WHERE,
                  S_DELETE_ALL, S_CREATE, S_DROP_DB, S_TRUNCATE, S_UPDATE_ALL, S_WITH,
                  S_SET, S_DESCRIBE, S_EXPLAIN, S_INSERT_T, S_SELECT_T}

MultiPool == {S_SELECT, S_DELETE_ALL}

RECURSIVE Join(_)
Join(stmts) == IF stmts = <<>> THEN <<>> ELSE Head(stmts) \o <<";">> \o Join(Tail(stmts))

SeqsOfLen(S, n) == [1..n -> S]

EmptyTexts == {<<>>, <<" ">>, <<";">>, <<" ", ";", "\n", ";">>}

Texts ==
    StatementPool \cup EmptyTexts
    \cup {Join(ss) : ss \in UNION {SeqsOfLen(MultiPool, n) : n \in 2..MaxStatements}}
    \cup {Join(<<S_QUOTED, S_SELECT>>), Join(<<S_CREATE, S_INSERT, S_SELECT>>),
          Join(<<S_SELECT, S_TRUNCATE, S_UPDATE_ALL>>),
          Join(<<S_CREATE, S_INSERT_T, S_SELECT_T>>), Join(<<S_INSERT, S_WITH>>)}

(***************************************************************************)
(* State                                                                   *)
(***************************************************************************)
VARIABLES
    pc,                 \* "idle", "multi" (inside the loop of _execute_multiple_statements),
                        \* "multi_return" (after the loop) or "done" (execute_query returned)
    request,            \* the arguments of the running / last execute_query call
    statements,         \* the split statements of the call
    results,            \* _execute_multiple_statements: results so far
    total_affected,     \* _execute_multiple_statements: accumulated affectedRows
    calls,              \* the driver calls of the call so far, in order
    ret,                \* Some(QueryResult) once the call has returned one
    raised,             \* the exception that escaped the call, "" if none
    text,               \* the argument of a direct call of a text function
    analysis,           \* what that call returned: [op |-> the function, out |-> its value]
    connector,          \* a connector object: its variant, config and cached self.connection
    driver,             \* the driver's side: connections opened so far, those still alive,
                        \* and those the client library knows to be closed
    c_call,             \* the last call on the connector: [op, sql, ret, raised], the row
                        \* count the driver reported in it, whether it called
                        \* conn.commit(), whether it left a connection open that is
                        \* not the cached one, whether its self.connect() returned the
                        \* cached handle, and what a connect() did to connect
    tables              \* the server's committed rows of table t, None while t does not exist

vars == <<pc, request, statements, results, total_affected, calls, ret, raised, text, analysis,
          connector, driver, c_call, tables>>

engine_vars == <<pc, request, statements, results, total_affected, calls, ret, raised, tables>>

text_vars == <<text, analysis>>

connector_vars == <<connector, driver, c_call>>

NoConnector == [kind |-> "", credentials |-> FALSE, connection |-> None]

NoDriver == [opened |-> 0, live |-> {}, known_closed |-> {}]

NoCall == [op |-> "", sql |-> <<>>, ret |-> None, raised |-> "", reported |-> None,
           committed |-> FALSE, leaked |-> FALSE, reused |-> FALSE, connecting |-> None]

NoRequest == [sql |-> <<>>, page |-> 1, page_size |-> 10,
              allow_multiple |-> FALSE, confirm_dangerous |-> FALSE]

Init ==
    /\ pc = "idle"
    /\ request = NoRequest
    /\ statements = <<>>
    /\ results = <<>>
    /\ total_affected = 0
    /\ calls = <<>>
    /\ ret = None
    /\ raised = ""
    /\ text = <<>>
    /\ analysis = None
    /\ connector = NoConnector
    /\ driver = NoDriver
    /\ c_call = NoCall
    /\ tables = None

(***************************************************************************)
(* The database server, for the statements on table t: what it answers    *)
(* and what a statement leaves committed.                                  *)
(***************************************************************************)
TableStatements == {S_CREATE, S_INSERT_T, S_SELECT_T}

\* the statement is valid on the committed contents
Accepts(sql, t) == IF sql = S_CREATE THEN t = None ELSE t # None

\* the contents after the statement, once committed
Effect(sql, t) ==
    CASE sql = S_CREATE /\ t = None -> Some(<<>>)
      [] sql = S_INSERT_T /\ t # None -> Some(Append(t[1], <<1>>))
      [] OTHER -> t

\* the statement makes the server send a result set
ReturnsRows(sql) == sql = S_WITH

\* the outcomes of one statement: those of Envs, except that a statement with a result set
\* sent down the write path leaves the result unread (commit() and cursor.close() then
\* fail), and except that the server's answer to a
\* statement on table t follows from the committed contents
ServerEnvs(sql, stmt_type, t) ==
    IF ReturnsRows(sql) /\ ~IsSelectKind(stmt_type)
    THEN {env \in Envs(stmt_type) : env.outcome \notin {"ok", "commit_error"}}
         \cup {[outcome |-> "unread_result", all_rows |-> <<>>, rowcount |-> -1]}
    ELSE IF sql \notin TableStatements THEN Envs(stmt_type)
    ELSE {env \in Envs(stmt_type) : env.outcome # "ok"}
         \cup (IF Accepts(sql, t)
               THEN {[outcome |-> "ok",
                      all_rows |-> IF sql = S_SELECT_T THEN t[1] ELSE <<>>,
                      rowcount |-> IF sql = S_CREATE THEN 0 ELSE 1]}
               ELSE {[outcome |-> "sql_error", all_rows |-> <<>>, rowcount |-> -1]})

\* data definition statements commit on their own
ImplicitCommit(stmt_type) ==
    stmt_type \in {"create_table", "create_database", "alter_table", "drop_table",
                   "drop_database", "truncate"}

Committed_OnlyImplicit(stmt_type, log) == ImplicitCommit(stmt_type)

\* the work of the statement is committed when its connection goes away: by the
\* server for a data definition statement, else by connection.commit()
Committed(stmt_type, log) ==
    ImplicitCommit(stmt_type) \/ \E k \in 1..Len(log) : log[k].op = "commit"

\* the committed contents after the connection of one statement is closed: what the
\* statement did is kept only if it was committed
TablesAfter(sql, stmt_type, env, t) ==
    LET executed == env.outcome \in {"ok", "commit_error"}
    IN  IF executed /\ Committed(stmt_type, StatementCalls(sql, stmt_type, env))
        THEN Effect(sql, t) ELSE t

RECURSIVE AllWarnings_FirstOnly(_)
AllWarnings_FirstOnly(stmts) ==
    IF stmts = <<>> THEN [overall_dangerous |-> FALSE, all_warnings |-> <<>>]
    ELSE [overall_dangerous |-> is_dangerous_query(Head(stmts)).is_dangerous,
          all_warnings |-> is_dangerous_query(Head(stmts)).warnings]

RECURSIVE AllWarnings(_)
\* the loop of execute_query over the statements: (overall_dangerous, all_warnings)
AllWarnings(stmts) ==
    IF stmts = <<>> THEN [overall_dangerous |-> FALSE, all_warnings |-> <<>>]
    ELSE LET first == is_dangerous_query(Head(stmts))
             rest == AllWarnings(Tail(stmts))
         IN  [overall_dangerous |-> first.is_dangerous \/ rest.overall_dangerous,
              all_warnings |-> (IF first.is_dangerous THEN first.warnings ELSE <<>>)
                               \o rest.all_warnings]

IsMultiple_MoreThanTwo(stmts) == Len(stmts) > 2

\* if len(statements) > 1
IsMultiple(stmts) == Len(stmts) > 1

Raise(exception) ==
    /\ pc' = "done"
    /\ ret' = None
    /\ raised' = exception

Return(result) ==
    /\ pc' = "done"
    /\ ret' = Some(result)
    /\ raised' = ""

\* execute_query up to the point where it returns, raises or enters the loop over the statements
execute_query(sql, page, page_size, allow_multiple, confirm_dangerous) ==
    LET stmts == split_statements(sql)
        check == AllWarnings(stmts)
    IN  /\ pc = "idle"
        /\ request' = [sql |-> sql, page |-> page, page_size |-> page_size,
                       allow_multiple |-> allow_multiple,
                       confirm_dangerous |-> confirm_dangerous]
        /\ statements' = stmts
        /\ results' = <<>>
        /\ total_affected' = 0
        /\ IF check.overall_dangerous /\ ~confirm_dangerous
           THEN /\ UNCHANGED tables
                /\ Return(QueryResult(
                       [type |-> "error",
                        message |-> Some(<<"Dangerous query detected. Please review and confirm execution.">>),
                        executionTimeMs |-> 0,
                        warnings |-> Some(check.all_warnings),
                        isDangerous |-> TRUE]))
                /\ calls' = <<>>
           ELSE IF IsMultiple(stmts)
           THEN IF ~allow_multiple
                THEN /\ UNCHANGED tables
                     /\ Return(QueryResult(
                            [type |-> "error",
                             message |-> Some(<<"Multiple statements detected. Enable 'Allow Multiple Statements' to execute.">>),
                             executionTimeMs |-> 0,
                             warnings |-> Some(<<"Multiple SQL statements found in query">>)]))
                     /\ calls' = <<>>
                ELSE /\ pc' = "multi"
                     /\ UNCHANGED tables
                     /\ ret' = None
                     /\ raised' = ""
                     /\ calls' = <<>>
           ELSE IF Len(stmts) = 0
           THEN \* statements[0] on an empty list
                /\ Raise("IndexError")
                /\ UNCHANGED tables
                /\ calls' = <<>>
           ELSE \E env \in ServerEnvs(stmts[1], detect_statement_type(stmts[1]), tables) :
                /\ IF StatementRaises(env) # ""
                   THEN Raise(StatementRaises(env))
                   ELSE Return(execute_single_statement(stmts[1], page, page_size, env))
                /\ calls' = StatementCalls(stmts[1], detect_statement_type(stmts[1]), env)
                /\ tables' = TablesAfter(stmts[1], detect_statement_type(stmts[1]), env, tables)

ExecuteQuery ==
    /\ UNCHANGED <<text_vars, connector_vars>>
    /\ \E sql \in Texts, page \in 1..MaxPage, page_size \in 1..MaxPageSize,
       allow_multiple \in BOOLEAN, confirm_dangerous \in BOOLEAN :
        execute_query(sql, page, page_size, allow_multiple, confirm_dangerous)

StopsLoop_NoBreak(result) == FALSE

\* if result.type == "error": break
StopsLoop(result) == result.type = "error"

\* one iteration of the loop of _execute_multiple_statements
MultiStatement ==
    /\ pc = "multi"
    /\ LET i == Len(results)         \* enumerate index of this iteration
           stmt == statements[i + 1]
           stmt_type == detect_statement_type(stmt)
       IN  \E env \in ServerEnvs(stmt, stmt_type, tables) :
           LET result == execute_single_statement(
                             stmt, IF i = Len(statements) - 1 THEN request.page ELSE 1,
                             request.page_size, env)
           IN  /\ calls' = calls \o StatementCalls(stmt, stmt_type, env)
               /\ tables' = TablesAfter(stmt, stmt_type, env, tables)
               /\ IF StatementRaises(env) # ""
                  THEN \* the exception leaves the loop and execute_query
                       /\ Raise(StatementRaises(env))
                       /\ UNCHANGED <<results, total_affected>>
                  ELSE /\ results' = Append(results, result)
                       /\ UNCHANGED <<ret, raised>>
                       /\ IF StopsLoop(result)
                          THEN /\ pc' = "multi_return"
                               /\ UNCHANGED total_affected
                          ELSE /\ total_affected' =
                                    IF result.affectedRows # None /\ result.affectedRows[1] # 0
                                    THEN total_affected + result.affectedRows[1]
                                    ELSE total_affected
                               /\ pc' = IF i + 1 = Len(statements)
                                        THEN "multi_return" ELSE "multi"
    /\ UNCHANGED <<request, statements, text_vars, connector_vars>>

LastSelect_Never(last_result, field) == None

LastSelect(last_result, field) ==
    IF last_result # None /\ last_result[1].type = "select" THEN last_result[1][field] ELSE None

\* the summary result _execute_multiple_statements builds after the loop
MultiResult(res, affected, execution_time) ==
    LET last_result == IF res # <<>> THEN Some(res[Len(res)]) ELSE None
    IN  QueryResult([type |-> "multi", queryType |-> Some("multiple"),
                     executionTimeMs |-> execution_time,
                     message |-> Some(<<"Executed ", Len(res), " statements successfully">>),
                     affectedRows |-> IF affected > 0 THEN Some(affected) ELSE None,
                     results |-> Some(res),
                     columns |-> LastSelect(last_result, "columns"),
                     rows |-> LastSelect(last_result, "rows"),
                     rowCount |-> LastSelect(last_result, "rowCount"),
                     totalRows |-> LastSelect(last_result, "totalRows"),
                     page |-> LastSelect(last_result, "page"),
                     pageSize |-> LastSelect(last_result, "pageSize"),
                     totalPages |-> LastSelect(last_result, "totalPages")])

MultiReturn ==
    /\ pc = "multi_return"
    /\ Return(MultiResult(results, total_affected, Len(calls)))
    /\ UNCHANGED <<request, statements, results, total_affected, calls, tables, text_vars,
                   connector_vars>>

Next == ExecuteQuery \/ MultiStatement \/ MultiReturn

Spec == Init /\ [][Next]_vars

TypeOK ==
    /\ pc \in {"idle", "multi", "multi_return", "done"}
    /\ raised \in {"", "IndexError", "InternalError"}
    /\ Len(results) <= Len(statements)

(***************************************************************************)
(* The text functions called directly: split_statements,                   *)
(* is_dangerous_query and detect_statement_type on texts drawn from a      *)
(* larger set than the requests above.                                     *)
(***************************************************************************)
MaxTextLen == 4

SplitAlphabet == {"a", " ", ";", "'", "\"", Backquote}

ShortTexts == UNION {SeqsOfLen(SplitAlphabet, n) : n \in 0..MaxTextLen}

SplitExample == <<"S", "E", "L", "E", "C", "T", " ", "'", ";", "'", " ", "A", "S", " ", "a", ";", " ", "S", "E", "L", "E", "C", "T", " ", "2", ";">>

SplitExamples ==
    {SplitExample, <<"a", " ", "\"", ";", "'", "\"", " ", ";", " ">> \o <<Backquote, "b", ";", Backquote>> \o <<" ", "c">>,
     <<"S", "E", "L", "E", "C", "T", " ", "\"", "i", "t", "'", "s", ";", " ", "f", "i", "n", "e", "\"", ";", " ", "x">>, <<" ", "'", "o", "p", "e", "n", ";", " ", "n", "e", "v", "e", "r", " ", "c", "l", "o", "s", "e", "d">>}

Gaps == {<<" ">>, <<"\n">>, <<" ", " ">>}

TableNames == {<<"t">>, <<"t", "e", "s", "t", "_", "u", "s", "e", "r", "s">>, <<"T", "1">>}

Conditions == {<<"i", "d", "=", "1">>, <<"a", "g", "e", " ", "<", " ", "3", "0">>, <<"n", "a", "m", "e", " ", "L", "I", "K", "E", " ", "'", "%", "S", "m", "i", "t", "h", "%", "'">>}

Assignments == {<<"a", "=", "1">>, <<"a", "g", "e", " ", "=", " ", "a", "g", "e", " ", "+", " ", "1">>}

\* DELETE FROM <table>, nothing but white space after the table name
DeleteAllTexts ==
    {kw \o g \o FROM \o <<" ">> \o tbl \o tail :
        kw \in {DELETE, <<"d", "e", "l", "e", "t", "e">>}, g \in Gaps, tbl \in TableNames,
        tail \in {<<>>, <<" ">>, <<"\n">>}}

\* DELETE FROM <table> WHERE <condition>
DeleteWhereTexts ==
    {DELETE \o <<" ">> \o FROM \o <<" ">> \o tbl \o g \o w \o <<" ">> \o cond :
        tbl \in TableNames, g \in Gaps, w \in {WHERE, <<"w", "h", "e", "r", "e">>}, cond \in Conditions}

\* UPDATE <table> SET <assignment>
UpdateAllTexts ==
    {UPDATE \o <<" ">> \o tbl \o g \o SET \o <<" ">> \o a :
        tbl \in TableNames, g \in Gaps, a \in Assignments}

\* UPDATE <table> SET <assignment> WHERE <condition>
UpdateWhereTexts ==
    {UPDATE \o <<" ">> \o tbl \o <<" ">> \o SET \o <<" ">> \o a \o g \o WHERE \o <<" ">> \o cond :
        tbl \in TableNames, a \in Assignments, g \in Gaps, cond \in Conditions}

\* statements opening with the keywords of every statement kind, in upper, lower and
\* mixed case, and with words that only begin like a keyword
Openings ==
    {<<"S", "E", "L", "E", "C", "T", " ", "1">>, <<"s", "e", "l", "e", "c", "t", "*">>, <<"I", "n", "s", "e", "r", "t", " ", "t">>, <<"U", "P", "D", "A", "T", "E", " ", "t">>, <<"d", "e", "l", "e", "t", "e">>, <<"C", "R", "E", "A", "T", "E", " ", "T", "A", "B", "L", "E", " ", "t">>,
     <<"c", "r", "e", "a", "t", "e", " ", " ", "t", "a", "b", "l", "e", "(">>, <<"C", "R", "E", "A", "T", "E", " ", "D", "A", "T", "A", "B", "A", "S", "E", " ", "d">>, <<"C", "r", "e", "a", "t", "e", " ", "S", "c", "h", "e", "m", "a", " ", "d">>, <<"A", "L", "T", "E", "R", " ", "T", "A", "B", "L", "E", " ", "t">>,
     <<"d", "r", "o", "p", " ", "t", "a", "b", "l", "e", " ", "t">>, <<"D", "R", "O", "P", " ", "D", "A", "T", "A", "B", "A", "S", "E", " ", "d">>, <<"d", "r", "o", "p", " ", "s", "c", "h", "e", "m", "a", " ", "d">>, <<"T", "R", "U", "N", "C", "A", "T", "E", " ", "t">>, <<"s", "h", "o", "w", " ", "t", "a", "b", "l", "e", "s">>,
     <<"D", "E", "S", "C", " ", "t">>, <<"d", "e", "s", "c", "r", "i", "b", "e", " ", "t">>, <<"E", "x", "p", "l", "a", "i", "n", " ", "x">>, <<"U", "S", "E", " ", "d">>,
     <<"S", "E", "L", "E", "C", "T", "E", "D", " ", "1">>, <<"D", "E", "S", "C", "R", "I", "B", "E", "D", " ", "t">>, <<"U", "S", "E", "R", " ", "d">>, <<"C", "R", "E", "A", "T", "E", " ", "I", "N", "D", "E", "X", " ", "i">>, <<"C", "R", "E", "A", "T", "E", " ", "T", "A", "B", "L", "E", "S">>,
     <<"D", "R", "O", "P", " ", "V", "I", "E", "W", " ", "v">>, <<"A", "L", "T", "E", "R", " ", "t">>, <<"x", " ", "S", "E", "L", "E", "C", "T", " ", "1">>, <<"(", "S", "E", "L", "E", "C", "T", " ", "1", ")">>, <<"C", "R", "E", "A", "T", "E", "T", "A", "B", "L", "E", " ", "t">>}

LeadingSpace == {<<>>, <<" ">>, <<"\n", " ">>, <<"\t">>}

DetectTexts == {lead \o opening : lead \in LeadingSpace, opening \in Openings}

TextInputs ==
    ShortTexts \cup SplitExamples \cup StatementPool
    \cup DeleteAllTexts \cup DeleteWhereTexts \cup UpdateAllTexts \cup UpdateWhereTexts
    \cup DetectTexts

InitText ==
    /\ pc = "idle"
    /\ request = NoRequest
    /\ statements = <<>>
    /\ results = <<>>
    /\ total_affected = 0
    /\ calls = <<>>
    /\ ret = None
    /\ raised = ""
    /\ text \in TextInputs
    /\ analysis = None
    /\ connector = NoConnector
    /\ driver = NoDriver
    /\ c_call = NoCall
    /\ tables = None

SplitText ==
    /\ analysis = None
    /\ analysis' = Some([op |-> "split_statements", out |-> split_statements(text)])
    /\ UNCHANGED <<engine_vars, connector_vars, text>>

CheckText ==
    /\ analysis = None
    /\ analysis' = Some([op |-> "is_dangerous_query", out |-> is_dangerous_query(text)])
    /\ UNCHANGED <<engine_vars, connector_vars, text>>

DetectText ==
    /\ analysis = None
    /\ analysis' = Some([op |-> "detect_statement_type", out |-> detect_statement_type(text)])
    /\ UNCHANGED <<engine_vars, connector_vars, text>>

NextText == SplitText \/ CheckText \/ DetectText

SpecText == InitText /\ [][NextText]_vars

(***************************************************************************)
(* Connectors (db_connectors.py).  A driver connection is a number; the    *)
(* driver keeps the set of those that are alive.  The server may drop a    *)
(* connection at any time.                                                 *)
(***************************************************************************)
MaxOpens == 2

MaxFirstOk == 3

Variants == {"mysql", "sqlite", "mssql", "postgresql", "mongodb"}

Relational == Variants \ {"mongodb"}

\* self.odbc_drivers of MSSQLConnector.__init__
odbc_drivers ==
    <<"ODBC Driver 18 for SQL Server", "ODBC Driver 17 for SQL Server",
      "ODBC Driver 13 for SQL Server", "ODBC Driver 11 for SQL Server",
      "SQL Server Native Client 11.0", "SQL Server Native Client 10.0", "SQL Server">>

\* what get_available_drivers may return on a host, in the order pyodbc.drivers() lists them
AvailableDrivers ==
    {<<>>,
     <<"ODBC Driver 17 for SQL Server">>,
     <<"SQL Server", "ODBC Driver 18 for SQL Server">>,
     <<"SQL Server Native Client RDA 11.0">>}

drivers_to_try_AsListed(available_drivers) ==
    IF available_drivers # <<>> THEN available_drivers ELSE odbc_drivers

drivers_to_try(available_drivers) ==
    LET preferred == SelectSeq(odbc_drivers, LAMBDA d : d \in Range(available_drivers))
    IN  IF preferred # <<>> THEN preferred
        ELSE IF available_drivers # <<>> THEN available_drivers
        ELSE odbc_drivers

\* the guard at the top of connect(): the cached handle is returned as it is.
\* is_connected() asks the server; .closed is what the client library knows
HandleReused_Never(c, d) == FALSE

HandleReused(c, d) ==
    CASE c.kind = "mysql" -> c.connection # None /\ c.connection[1] \in d.live
      [] c.kind = "postgresql" -> c.connection # None /\ c.connection[1] \notin d.known_closed
      [] OTHER -> c.connection # None

\* config["database"] of the MongoDB connector
Database == "books_library"

\* auth_sources of MongoDBConnector.connect and test_connection for a config without
\* auth_source: config.get("auth_source", "admin"), config["database"], "admin"
auth_sources == <<"admin", Database, "admin">>

\* what the server does with the connection attempts of one connect()
\*   mssql    first_ok: the attempt that succeeds (0: none); error_class: what the
\*            failing attempts raise
\*   mongodb  noauth_ok: the unauthenticated ping; authenticates: the authentication
\*            databases that know the user; final_ok: the ping of the cached client
ConnectEnvsOf(kind, credentials) ==
    CASE kind = "mssql" ->
            {[available |-> a, first_ok |-> k, error_class |-> e] :
                a \in AvailableDrivers, k \in 0..MaxFirstOk, e \in {"pyodbc.Error", "Exception"}}
      [] kind = "mongodb" ->
            {[noauth_ok |-> FALSE, authenticates |-> {}, final_ok |-> FALSE]}
            \cup {[noauth_ok |-> TRUE, authenticates |-> s, final_ok |-> f] :
                     s \in (IF credentials THEN SUBSET {Database, "admin"} ELSE {{}}),
                     f \in BOOLEAN}
      [] OTHER -> {[ok |-> b] : b \in BOOLEAN}

ConnectEnvs(c) == ConnectEnvsOf(c.kind, c.credentials)

\* what pyodbc.connect does at the k-th connection attempt of a connect()
AttemptOutcome(env, k) == IF k = env.first_ok THEN "ok" ELSE env.error_class

\* the loop "for driver in drivers_to_try" of MSSQLConnector.connect with its inner
\* "for attempt in range(2)", from the i-th driver on, after k attempts: the attempts
\* made from there on
RECURSIVE TryDrivers(_, _, _, _)
TryDrivers(drivers, i, env, k) ==
    IF i > Len(drivers) THEN <<>>
    ELSE LET first == [driver |-> drivers[i], attempt |-> 0,
                       outcome |-> AttemptOutcome(env, k + 1)]
             second == [driver |-> drivers[i], attempt |-> 1,
                        outcome |-> AttemptOutcome(env, k + 2)]
         IN  IF first.outcome = "ok" THEN <<first>>
             ELSE IF first.outcome = "Exception"
             THEN \* except Exception: continue with the next driver
                  <<first>> \o TryDrivers(drivers, i + 1, env, k + 1)
             ELSE \* time.sleep(1), second attempt
                  IF second.outcome = "ok" THEN <<first, second>>
                  ELSE <<first, second>> \o TryDrivers(drivers, i + 1, env, k + 2)

\* seconds spent in time.sleep(1): once after every first attempt that pyodbc.Error ended
Slept(log) ==
    Cardinality({k \in 1..Len(log) : log[k].attempt = 0 /\ log[k].outcome = "pyodbc.Error"})

\* last_error: the attempt whose exception was recorded last
last_error(log) ==
    LET recorded == {k \in 1..Len(log) :
                        \/ log[k].outcome = "Exception"
                        \/ log[k].outcome = "pyodbc.Error" /\ log[k].attempt = 1}
    IN  IF recorded = {} THEN None ELSE Some(SetMax(recorded))

\* the loop "for auth_source in auth_sources" of MongoDBConnector.connect
RECURSIVE AuthLoop(_, _, _, _)
AuthLoop(sources, i, authenticates, log) ==
    IF i > Len(sources) THEN [auth_source |-> None, log |-> log]
    ELSE IF sources[i] \in authenticates
    THEN [auth_source |-> Some(sources[i]),
          log |-> Append(log, [source |-> sources[i], outcome |-> "ok"])]
    ELSE AuthLoop(sources, i + 1, authenticates,
                  Append(log, [source |-> sources[i], outcome |-> "PyMongoError"]))

\* a connect() that returns the cached handle
\*   raised      the exception that leaves connect(), "" if none
\*   cached      self.connection was assigned a new driver connection
\*   alive       that connection is established
\*   attempts    the number of connection attempts made
\*   log         the attempts: of drivers (mssql), of authentication databases (mongodb)
\*   candidates  drivers_to_try
\*   slept       the seconds of time.sleep
\*   message     the lists and the error the ConnectionError names
\*   auth_source the authSource of the connection string of the cached client
NoFreshConnect ==
    [raised |-> "", cached |-> FALSE, alive |-> FALSE, attempts |-> 0, log |-> <<>>,
     candidates |-> <<>>, slept |-> 0, message |-> None, auth_source |-> None]

\* the outcome of MSSQLConnector.connect after its loop over the drivers
MssqlConnected(candidates, available, log, connected) ==
    [NoFreshConnect EXCEPT
        !.raised = IF connected THEN "" ELSE "ConnectionError",
        !.cached = connected,
        !.alive = connected,
        !.attempts = Len(log),
        !.log = log,
        !.candidates = candidates,
        !.slept = Slept(log),
        !.message = IF connected THEN None
                    ELSE Some([tried_drivers |-> candidates,
                               available_system_drivers |-> available,
                               last_error |-> last_error(log)])]

\* return self.connection was reached in the loop
ReturnedConnection(log) == log # <<>> /\ log[Len(log)].outcome = "ok"

MssqlConnect(candidates, available, log) ==
    MssqlConnected(candidates, available, log, ReturnedConnection(log))

\* the outcome of MongoDBConnector.connect once the unauthenticated ping has passed
MongoConnect(auth, final_ok) ==
    [NoFreshConnect EXCEPT
        !.raised = IF final_ok THEN "" ELSE "ConnectionError",
        !.cached = TRUE,
        !.alive = final_ok,
        !.attempts = 2 + Len(auth.log),
        !.log = auth.log,
        !.auth_source = auth.auth_source]

\* connect() when the cached handle is not reused
FreshConnectOf(kind, credentials, env) ==
    CASE kind = "mssql" ->
            MssqlConnect(drivers_to_try(env.available), env.available,
                         TryDrivers(drivers_to_try(env.available), 1, env, 0))
      [] kind = "mongodb" ->
            IF ~env.noauth_ok
            THEN [NoFreshConnect EXCEPT !.raised = "ConnectionError", !.attempts = 1]
            ELSE MongoConnect(IF credentials
                              THEN AuthLoop(auth_sources, 1, env.authenticates, <<>>)
                              ELSE [auth_source |-> None, log |-> <<>>],
                              env.final_ok)
      [] OTHER ->
            [NoFreshConnect EXCEPT
                !.raised = IF env.ok THEN "" ELSE "ConnectionError",
                !.cached = env.ok, !.alive = env.ok, !.attempts = 1]

\* FreshConnectOf for every configuration and every answer of the server
FreshConnectTable ==
    [kind \in Variants |->
        [credentials \in BOOLEAN |->
            [env \in ConnectEnvsOf(kind, credentials) |->
                FreshConnectOf(kind, credentials, env)]]]

FreshConnect(c, env) == FreshConnectTable[c.kind][c.credentials][env]

\* the answers of the server that matter to a call of self.connect(): none when the
\* cached handle is returned
ConnectEnvsNow ==
    IF HandleReused(connector, driver)
    THEN {CHOOSE env \in ConnectEnvs(connector) : TRUE}
    ELSE ConnectEnvs(connector)

\* the connector and the driver after a connect() with outcome out; a new connection
\* gets the next number
Connecting(c, d, out, h) ==
    [out |-> out,
     connector |-> IF out.cached THEN [c EXCEPT !.connection = Some(h)] ELSE c,
     driver |-> IF out.cached
                THEN [d EXCEPT !.opened = h,
                               !.live = IF out.alive THEN d.live \cup {h} ELSE d.live]
                ELSE d]

\* connect(): the outcome and the connector and driver after it
connect(c, d, env) ==
    Connecting(c, d, IF HandleReused(c, d) THEN NoFreshConnect ELSE FreshConnect(c, env),
               d.opened + 1)

\* disconnect()
disconnect(c, d) ==
    IF HandleReused(c, d)
    THEN [connector |-> [c EXCEPT !.connection = None],
          driver |-> [d EXCEPT !.live = @ \ {c.connection[1]}]]
    ELSE [connector |-> c, driver |-> d]

\* dict.update
Update(result, more) ==
    [key \in DOMAIN result \cup DOMAIN more |->
        IF key \in DOMAIN more THEN more[key] ELSE result[key]]

SELECT == <<"S", "E", "L", "E", "C", "T">>

\* sql.strip().upper().startswith("SELECT")
is_select(sql) ==
    LET s == UpperStr(strip(sql))
    IN  Len(s) >= Len(SELECT) /\ SubSeq(s, 1, Len(SELECT)) = SELECT

\* what the server does with the statement: ok, the rows it returns, cursor.rowcount
ExecEnvs(sql) ==
    {[ok |-> FALSE, nrows |-> 0, rowcount |-> -1]}
    \cup (IF is_select(sql)
          THEN {[ok |-> TRUE, nrows |-> n, rowcount |-> n] : n \in 0..MaxRows}
          ELSE {[ok |-> TRUE, nrows |-> 0, rowcount |-> r] : r \in (-1)..MaxRowcount})

\* the same once self.connect() has returned or raised: a statement that is never sent
\* gets no answer
ExecEnvsAfter(sql, connected) ==
    IF connected THEN ExecEnvs(sql) ELSE {[ok |-> FALSE, nrows |-> 0, rowcount |-> -1]}

\* the "affectedRows" entry of the write branch
affectedRows(kind, rowcount) ==
    IF kind = "sqlite" THEN (IF rowcount > 0 THEN rowcount ELSE 0) ELSE rowcount

\* the body of the relational execute_query after self.connect() has returned conn
RelationalResult(kind, sql, conn_alive, env, elapsed) ==
    LET result == [type |-> "error", message |-> <<>>, executionTimeMs |-> 0]
    IN  IF ~(conn_alive /\ env.ok)
        THEN \* the driver's own error class, caught
             Update(result, [message |-> <<"driver error">>, executionTimeMs |-> elapsed])
        ELSE IF is_select(sql)
        THEN Update(result, [type |-> "select",
                             columns |-> <<[name |-> "id",
                                            type |-> IF kind = "sqlite" THEN "TEXT" ELSE "INT"]>>,
                             rows |-> AllRows(env.nrows), rowCount |-> env.nrows,
                             executionTimeMs |-> elapsed])
        ELSE Update(result, [type |-> "write",
                             affectedRows |-> affectedRows(kind, env.rowcount),
                             message |-> <<affectedRows(kind, env.rowcount), " row(s) affected">>,
                             executionTimeMs |-> elapsed])

Q_FIND == <<"d", "b", ".", "u", "s", "e", "r", "s", ".", "f", "i", "n", "d", "(", "{", "}", ")">>

Q_INSERT == <<"d", "b", ".", "u", "s", "e", "r", "s", ".", "i", "n", "s", "e", "r", "t", "O", "n", "e", "(", "{", "}", ")">>

Q_SHORT == <<"d", "b", ".", "f", "i", "n", "d", "(">>

Q_OTHER == <<"s", "h", "o", "w", " ", "d", "b", "s">>

StartsWith(s, prefix) == Len(s) >= Len(prefix) /\ SubSeq(s, 1, Len(prefix)) = prefix

\* len(query.split("."))
DotParts(s) == 1 + Cardinality({i \in 1..Len(s) : s[i] = "."})

\* the body of MongoDBConnector.execute_query after self.connect() has returned
MongoResult(query_text, conn_alive, env, elapsed) ==
    LET result == [type |-> "error", message |-> <<>>, executionTimeMs |-> 0]
        query == strip(query_text)
    IN  IF StartsWith(query, <<"d", "b", ".">>) /\ Contains(query, <<".", "f", "i", "n", "d", "(">>)
        THEN IF DotParts(query) >= 3
             THEN IF conn_alive /\ env.ok
                  THEN Update(result, [type |-> "select",
                                       columns |-> <<[name |-> "document", type |-> "BSON"]>>,
                                       rows |-> AllRows(env.nrows), rowCount |-> env.nrows,
                                       executionTimeMs |-> elapsed])
                  ELSE Update(result, [message |-> <<"Query execution error: ", "driver error">>,
                                       executionTimeMs |-> elapsed])
             ELSE Update(result, [executionTimeMs |-> elapsed])
        ELSE IF StartsWith(query, <<"d", "b", ".">>)
                /\ (Contains(query, <<".", "i", "n", "s", "e", "r", "t", "O", "n", "e", "(">>) \/ Contains(query, <<".", "i", "n", "s", "e", "r", "t", "M", "a", "n", "y", "(">>))
        THEN Update(result, [type |-> "write", affectedRows |-> 1,
                             message |-> <<"Insert operation (parsing not fully implemented)">>,
                             executionTimeMs |-> elapsed])
        ELSE Update(result, [message |-> <<"Unsupported MongoDB query format. Use standard MongoDB syntax like db.collection.find()">>,
                             executionTimeMs |-> elapsed])

ConnectorQueries(kind) ==
    IF kind = "mongodb" THEN {Q_FIND, Q_INSERT, Q_SHORT, Q_OTHER}
    ELSE {S_SELECT, S_SHOW, S_DESCRIBE, S_EXPLAIN, S_INSERT}

InitConnector ==
    /\ pc = "idle"
    /\ request = NoRequest
    /\ statements = <<>>
    /\ results = <<>>
    /\ total_affected = 0
    /\ calls = <<>>
    /\ ret = None
    /\ raised = ""
    /\ text = <<>>
    /\ analysis = None
    /\ \E kind \in Variants, credentials \in BOOLEAN :
          /\ kind # "mongodb" => ~credentials
          /\ connector = [kind |-> kind, credentials |-> credentials, connection |-> None]
    /\ driver = NoDriver
    /\ c_call = NoCall
    /\ tables = None

MayOpen == driver.opened < MaxOpens \/ HandleReused(connector, driver)

Connect ==
    /\ MayOpen
    /\ \E env \in ConnectEnvsNow :
          LET done == connect(connector, driver, env)
          IN  /\ connector' = done.connector
              /\ driver' = done.driver
              /\ c_call' = [NoCall EXCEPT !.op = "connect",
                                          !.reused = HandleReused(connector, driver),
                                          !.connecting = Some(done.out),
                                          !.ret = IF done.out.raised = ""
                                                  THEN done.connector.connection ELSE None,
                                          !.raised = done.out.raised]
    /\ UNCHANGED <<engine_vars, text_vars>>

Disconnect ==
    /\ connector' = disconnect(connector, driver).connector
    /\ driver' = disconnect(connector, driver).driver
    /\ c_call' = [NoCall EXCEPT !.op = "disconnect"]
    /\ UNCHANGED <<engine_vars, text_vars>>

\* execute_query(sql) of every variant: conn = self.connect() inside the try block whose
\* except clause names the driver's error class only
ConnectorExecuteQuery ==
    /\ MayOpen
    /\ \E sql \in ConnectorQueries(connector.kind), cenv \in ConnectEnvsNow :
       \E env \in ExecEnvsAfter(sql, connect(connector, driver, cenv).out.raised = "") :
          LET done == connect(connector, driver, cenv)
              conn_alive == done.connector.connection # None
                            /\ done.connector.connection[1] \in done.driver.live
              elapsed == done.out.attempts + 1
              \* the statement reached the server and was carried out
              executed == done.out.raised = "" /\ conn_alive /\ env.ok
          IN  /\ connector' = done.connector
              /\ driver' = IF connector.kind = "postgresql" /\ done.out.raised = "" /\ ~conn_alive
                            THEN [done.driver EXCEPT
                                     !.known_closed = @ \cup {done.connector.connection[1]}]
                            ELSE done.driver
              /\ IF done.out.raised # ""
                 THEN c_call' = [NoCall EXCEPT !.op = "execute_query", !.sql = sql,
                                               !.reused = HandleReused(connector, driver),
                                               !.raised = done.out.raised]
                 ELSE c_call' = [NoCall EXCEPT
                                   !.op = "execute_query",
                                   !.sql = sql,
                                   !.reused = HandleReused(connector, driver),
                                   !.committed = executed /\ connector.kind # "mongodb"
                                                 /\ ~is_select(sql),
                                   !.ret = Some(IF connector.kind = "mongodb"
                                                THEN MongoResult(sql, conn_alive, env, elapsed)
                                                ELSE RelationalResult(connector.kind, sql,
                                                                      conn_alive, env, elapsed)),
                                   !.reported = IF executed /\ connector.kind # "mongodb"
                                                THEN Some(env.rowcount) ELSE None]
    /\ UNCHANGED <<engine_vars, text_vars>>

\* get_schema() and get_table_info(name): conn = self.connect() before the try block,
\* then the catalogue queries on conn; the cursor is closed, the connection is kept.
\* The relational variants let a driver error of these queries pass (try/finally),
\* the MongoDB variant returns it as {"error": message}
\*   cenv      what the server does with the connection attempts
\*   ok        what it does with the catalogue queries
schema_call(op, c, d, cenv, ok) ==
    LET done == connect(c, d, cenv)
        conn_alive == done.connector.connection # None
                      /\ done.connector.connection[1] \in done.driver.live
        call == [NoCall EXCEPT !.op = op, !.reused = HandleReused(c, d)]
    IN  [connector |-> done.connector,
         driver |-> IF c.kind = "postgresql" /\ done.out.raised = "" /\ ~conn_alive
                    THEN [done.driver EXCEPT
                             !.known_closed = @ \cup {done.connector.connection[1]}]
                    ELSE done.driver,
         call |-> IF done.out.raised # "" THEN [call EXCEPT !.raised = done.out.raised]
                  ELSE IF conn_alive /\ ok THEN [call EXCEPT !.ret = Some([tables |-> <<>>])]
                  ELSE IF c.kind = "mongodb"
                  THEN [call EXCEPT !.ret = Some([error |-> "driver error"])]
                  ELSE [call EXCEPT !.raised = "DriverError"]]

ConnectorGetSchema ==
    /\ MayOpen
    /\ \E cenv \in ConnectEnvsNow, ok \in BOOLEAN :
          LET done == schema_call("get_schema", connector, driver, cenv, ok)
          IN  /\ connector' = done.connector
              /\ driver' = done.driver
              /\ c_call' = done.call
    /\ UNCHANGED <<engine_vars, text_vars>>

ConnectorGetTableInfo ==
    /\ MayOpen
    /\ \E cenv \in ConnectEnvsNow, ok \in BOOLEAN :
          LET done == schema_call("get_table_info", connector, driver, cenv, ok)
          IN  /\ connector' = done.connector
              /\ driver' = done.driver
              /\ c_call' = done.call
    /\ UNCHANGED <<engine_vars, text_vars>>

\* the exception classes the except clauses of test_connection name
TestCatches_DriverOnly(kind) == {"DriverError"}

TestCatches(kind) ==
    CASE kind \in {"mysql", "sqlite", "postgresql"} -> {"DriverError"}
      [] kind = "mssql" -> {"DriverError", "ConnectionError"}
      [] kind = "mongodb" -> {"DriverError", "ConnectionError", "Exception"}

\* test_connection(): the connector and driver after it, the pair it returns or the
\* exception that leaves it, and whether a probe connection stays open
\*   cenv      what the server does with the connection attempts
\*   probe_ok  what it does with the probe statement SELECT 1
test_connection(c, d, cenv, probe_ok) ==
    LET Outcome(c1, d1, class, success, message, leaked) ==
            [connector |-> c1, driver |-> d1,
             ret |-> IF class = "" THEN Some(<<success, message>>)
                     ELSE IF class \in TestCatches(c.kind) THEN Some(<<FALSE, "Connection failed">>)
                     ELSE None,
             raised |-> IF class = "" \/ class \in TestCatches(c.kind) THEN "" ELSE class,
             leaked |-> leaked]
    IN  CASE c.kind \in {"mysql", "postgresql"} ->
                IF cenv.ok THEN Outcome(c, d, "", TRUE, "Connection successful", FALSE)
                ELSE Outcome(c, d, "DriverError", FALSE, "", FALSE)
          [] c.kind = "sqlite" ->
                IF ~cenv.ok THEN Outcome(c, d, "DriverError", FALSE, "", FALSE)
                ELSE IF ~probe_ok THEN Outcome(c, d, "DriverError", FALSE, "", TRUE)
                ELSE Outcome(c, d, "", TRUE, "Connection successful", FALSE)
          [] c.kind = "mssql" ->
                LET done == connect(c, d, cenv)
                    h == done.connector.connection
                IN  IF done.out.raised # ""
                    THEN Outcome(done.connector, done.driver, done.out.raised, FALSE, "", FALSE)
                    ELSE IF ~(probe_ok /\ h[1] \in done.driver.live)
                    THEN Outcome(done.connector, done.driver, "DriverError", FALSE, "", FALSE)
                    ELSE Outcome([done.connector EXCEPT !.connection = None],
                                 [done.driver EXCEPT !.live = @ \ {h[1]}],
                                 "", TRUE, "Connection successful", FALSE)
          [] c.kind = "mongodb" ->
                IF ~cenv.noauth_ok THEN Outcome(c, d, "DriverError", FALSE, "", FALSE)
                ELSE IF ~c.credentials
                THEN Outcome(c, d, "", TRUE, "Connection successful (no authentication required)",
                             FALSE)
                ELSE IF AuthLoop(auth_sources, 1, cenv.authenticates, <<>>).auth_source # None
                THEN Outcome(c, d, "", TRUE, "Connection successful (authenticated)", FALSE)
                ELSE Outcome(c, d, "", TRUE,
                             "Connection successful (MongoDB accessible but authentication failed - this may be normal if auth is not enabled)",
                             FALSE)

TestConnection ==
    /\ MayOpen
    /\ \E cenv \in ConnectEnvs(connector), probe_ok \in BOOLEAN :
          LET done == test_connection(connector, driver, cenv, probe_ok)
          IN  /\ connector' = done.connector
              /\ driver' = done.driver
              /\ c_call' = [NoCall EXCEPT !.op = "test_connection", !.ret = done.ret,
                                          !.reused = connector.kind = "mssql"
                                                     /\ HandleReused(connector, driver),
                                          !.raised = done.raised, !.leaked = done.leaked]
    /\ UNCHANGED <<engine_vars, text_vars>>

\* the server, or the network, ends a connection
ServerDrops ==
    /\ \E h \in driver.live : driver' = [driver EXCEPT !.live = @ \ {h}]
    /\ UNCHANGED <<connector, c_call, engine_vars, text_vars>>

NextConnector ==
    \/ Connect \/ Disconnect \/ ConnectorExecuteQuery \/ ConnectorGetSchema
    \/ ConnectorGetTableInfo \/ TestConnection \/ ServerDrops

SpecConnector == InitConnector /\ [][NextConnector]_vars

(***************************************************************************)
(* The type mappers and the MongoDB schema inference (db_connectors.py),   *)
(* called directly on type codes and on sampled documents.                 *)
(***************************************************************************)
MaxDocs == 2

\* the keys of a dict
Keys(mapping) == {pair[1] : pair \in mapping}

\* dict.get(key, default) of a dict given as a set of <<key, value>> pairs
Get(mapping, key, default) ==
    IF key \in Keys(mapping)
    THEN (CHOOSE pair \in mapping : pair[1] = key)[2]
    ELSE default

DecimalDigits == <<"0", "1", "2", "3", "4", "5", "6", "7", "8", "9">>

RECURSIVE NatStr(_)
NatStr(n) ==
    IF n < 10 THEN <<DecimalDigits[n + 1]>>
    ELSE NatStr(n \div 10) \o <<DecimalDigits[(n % 10) + 1]>>

\* str() of an int
str(n) == IF n < 0 THEN <<"-">> \o NatStr(-n) ELSE NatStr(n)

\* f"UNKNOWN({type_code})"
Unknown(type_code) == <<"U", "N", "K", "N", "O", "W", "N", "(">> \o str(type_code) \o <<")">>

\* mysql_type_mapping, keyed by the values of mysql.connector.FieldType
mysql_type_mapping ==
    {<<0, <<"D", "E", "C", "I", "M", "A", "L">>>>, <<1, <<"T", "I", "N", "Y", "I", "N", "T">>>>, <<2, <<"S", "M", "A", "L", "L", "I", "N", "T">>>>, <<3, <<"I", "N", "T">>>>, <<4, <<"F", "L", "O", "A", "T">>>>,
     <<5, <<"D", "O", "U", "B", "L", "E">>>>, <<6, <<"N", "U", "L", "L">>>>, <<7, <<"T", "I", "M", "E", "S", "T", "A", "M", "P">>>>, <<8, <<"B", "I", "G", "I", "N", "T">>>>, <<9, <<"M", "E", "D", "I", "U", "M", "I", "N", "T">>>>,
     <<10, <<"D", "A", "T", "E">>>>, <<11, <<"T", "I", "M", "E">>>>, <<12, <<"D", "A", "T", "E", "T", "I", "M", "E">>>>, <<13, <<"Y", "E", "A", "R">>>>, <<14, <<"D", "A", "T", "E">>>>,
     <<15, <<"V", "A", "R", "C", "H", "A", "R">>>>, <<16, <<"B", "I", "T">>>>, <<245, <<"J", "S", "O", "N">>>>, <<246, <<"D", "E", "C", "I", "M", "A", "L">>>>, <<247, <<"E", "N", "U", "M">>>>,
     <<248, <<"S", "E", "T">>>>, <<249, <<"T", "I", "N", "Y", "B", "L", "O", "B">>>>, <<250, <<"M", "E", "D", "I", "U", "M", "B", "L", "O", "B">>>>, <<251, <<"L", "O", "N", "G", "B", "L", "O", "B">>>>,
     <<252, <<"B", "L", "O", "B">>>>, <<253, <<"V", "A", "R", "C", "H", "A", "R">>>>, <<254, <<"C", "H", "A", "R">>>>, <<255, <<"G", "E", "O", "M", "E", "T", "R", "Y">>>>}

_map_mysql_type(type_code) == Get(mysql_type_mapping, type_code, <<"V", "A", "R", "C", "H", "A", "R">>)

sql_type_mapping ==
    {<<-150, <<"U", "N", "I", "Q", "U", "E", "I", "D", "E", "N", "T", "I", "F", "I", "E", "R">>>>, <<-9, <<"N", "V", "A", "R", "C", "H", "A", "R">>>>, <<-8, <<"N", "C", "H", "A", "R">>>>, <<-7, <<"B", "I", "T">>>>,
     <<-6, <<"T", "I", "N", "Y", "I", "N", "T">>>>, <<-5, <<"B", "I", "G", "I", "N", "T">>>>, <<-4, <<"V", "A", "R", "B", "I", "N", "A", "R", "Y">>>>, <<-3, <<"V", "A", "R", "B", "I", "N", "A", "R", "Y">>>>,
     <<-2, <<"B", "I", "N", "A", "R", "Y">>>>, <<-1, <<"T", "E", "X", "T">>>>, <<1, <<"C", "H", "A", "R">>>>, <<2, <<"N", "U", "M", "E", "R", "I", "C">>>>, <<3, <<"D", "E", "C", "I", "M", "A", "L">>>>,
     <<4, <<"I", "N", "T">>>>, <<5, <<"S", "M", "A", "L", "L", "I", "N", "T">>>>, <<6, <<"F", "L", "O", "A", "T">>>>, <<7, <<"R", "E", "A", "L">>>>, <<8, <<"D", "O", "U", "B", "L", "E">>>>,
     <<9, <<"D", "A", "T", "E", "T", "I", "M", "E">>>>, <<12, <<"V", "A", "R", "C", "H", "A", "R">>>>, <<91, <<"D", "A", "T", "E">>>>, <<92, <<"T", "I", "M", "E">>>>, <<93, <<"T", "I", "M", "E", "S", "T", "A", "M", "P">>>>,
     <<-11, <<"D", "A", "T", "E", "T", "I", "M", "E", "2">>>>, <<-154, <<"T", "I", "M", "E">>>>, <<-155, <<"D", "A", "T", "E", "T", "I", "M", "E", "O", "F", "F", "S", "E", "T">>>>}

_map_sql_server_type(type_code) == Get(sql_type_mapping, type_code, Unknown(type_code))

pg_type_mapping ==
    {<<16, <<"B", "O", "O", "L", "E", "A", "N">>>>, <<17, <<"B", "Y", "T", "E", "A">>>>, <<18, <<"C", "H", "A", "R">>>>, <<19, <<"N", "A", "M", "E">>>>, <<20, <<"B", "I", "G", "I", "N", "T">>>>,
     <<21, <<"S", "M", "A", "L", "L", "I", "N", "T">>>>, <<22, <<"I", "N", "T", "2", "V", "E", "C", "T", "O", "R">>>>, <<23, <<"I", "N", "T", "E", "G", "E", "R">>>>, <<24, <<"R", "E", "G", "P", "R", "O", "C">>>>,
     <<25, <<"T", "E", "X", "T">>>>, <<26, <<"O", "I", "D">>>>, <<27, <<"T", "I", "D">>>>, <<28, <<"X", "I", "D">>>>, <<29, <<"C", "I", "D">>>>,
     <<114, <<"J", "S", "O", "N">>>>, <<142, <<"X", "M", "L">>>>, <<700, <<"R", "E", "A", "L">>>>, <<701, <<"D", "O", "U", "B", "L", "E", " ", "P", "R", "E", "C", "I", "S", "I", "O", "N">>>>,
     <<1043, <<"V", "A", "R", "C", "H", "A", "R">>>>, <<1082, <<"D", "A", "T", "E">>>>, <<1083, <<"T", "I", "M", "E">>>>, <<1114, <<"T", "I", "M", "E", "S", "T", "A", "M", "P">>>>,
     <<1184, <<"T", "I", "M", "E", "S", "T", "A", "M", "P", "T", "Z">>>>, <<1266, <<"T", "I", "M", "E", "T", "Z">>>>, <<1700, <<"N", "U", "M", "E", "R", "I", "C">>>>, <<2950, <<"U", "U", "I", "D">>>>,
     <<3802, <<"J", "S", "O", "N", "B">>>>}

_map_postgresql_type(type_oid) == Get(pg_type_mapping, type_oid, Unknown(type_oid))

Mappers == {"_map_mysql_type", "_map_sql_server_type", "_map_postgresql_type"}

\* the mapping a mapper looks the code up in
MappingOf(mapper) ==
    CASE mapper = "_map_mysql_type" -> mysql_type_mapping
      [] mapper = "_map_sql_server_type" -> sql_type_mapping
      [] mapper = "_map_postgresql_type" -> pg_type_mapping

\* the codes a driver may hand to a mapper: every key of its mapping, and codes that
\* are in none
TypeCodes(mapper) == Keys(MappingOf(mapper)) \cup {-999, 0, 17, 30, 242, 600, 1000, 65535}

\* the classes of the values of a sampled document; bool is a subclass of int
ValueClasses == {"NoneType", "str", "int", "bool", "datetime"}

isinstance(value, class) == value = class \/ (value = "bool" /\ class = "int")

\* the isinstance chain of get_schema and get_table_info
field_type_of(value) ==
    IF isinstance(value, "str") THEN "String"
    ELSE IF isinstance(value, "int") THEN "Number"
    ELSE IF isinstance(value, "float") THEN "Number"
    ELSE IF isinstance(value, "bool") THEN "Boolean"
    ELSE IF isinstance(value, "ObjectId") THEN "ObjectId"
    ELSE IF isinstance(value, "dict") THEN "Object"
    ELSE IF isinstance(value, "list") THEN "Array"
    ELSE "Mixed"

\* sorted(all_fields) over the field names of the model
SortedFields == <<"_id", "a", "b">>

\* the documents of a collection: _id and any of the fields a and b; a field maps to
\* the class of its value
Documents ==
    UNION {[{"_id"} \cup fields -> ValueClasses \cup {"ObjectId"}] : fields \in SUBSET {"a", "b"}}

StoredDocuments == {doc \in Documents : doc["_id"] = "ObjectId" /\ \A f \in DOMAIN doc \ {"_id"} : doc[f] # "ObjectId"}

SampleDocs == UNION {SeqsOfLen(StoredDocuments, n) : n \in 0..MaxDocs}

\* the loop "for doc in sample_docs: if field in doc: ...; break"
field_type(sample_docs, field) ==
    LET holding == {i \in 1..Len(sample_docs) : field \in DOMAIN sample_docs[i]}
    IN  IF holding = {} THEN "Mixed" ELSE field_type_of(sample_docs[SetMin(holding)][field])

\* the columns get_schema and get_table_info infer from the sampled documents
columns(sample_docs) ==
    LET all_fields == UNION {DOMAIN sample_docs[i] : i \in 1..Len(sample_docs)}
        sorted == SelectSeq(SortedFields, LAMBDA f : f \in all_fields)
    IN  [k \in 1..Len(sorted) |->
            [name |-> sorted[k], type |-> field_type(sample_docs, sorted[k]),
             nullable |-> TRUE, isPrimaryKey |-> sorted[k] = "_id",
             isForeignKey |-> FALSE, references |-> None]]

InitSchema ==
    /\ pc = "idle"
    /\ request = NoRequest
    /\ statements = <<>>
    /\ results = <<>>
    /\ total_affected = 0
    /\ calls = <<>>
    /\ ret = None
    /\ raised = ""
    /\ text = <<>>
    /\ analysis = None
    /\ connector = NoConnector
    /\ driver = NoDriver
    /\ c_call = NoCall
    /\ tables = None

MapMySQLType ==
    /\ analysis = None
    /\ \E type_code \in TypeCodes("_map_mysql_type") :
          analysis' = Some([op |-> "_map_mysql_type", arg |-> type_code,
                            out |-> _map_mysql_type(type_code)])
    /\ UNCHANGED <<engine_vars, connector_vars, text>>

MapSqlServerType ==
    /\ analysis = None
    /\ \E type_code \in TypeCodes("_map_sql_server_type") :
          analysis' = Some([op |-> "_map_sql_server_type", arg |-> type_code,
                            out |-> _map_sql_server_type(type_code)])
    /\ UNCHANGED <<engine_vars, connector_vars, text>>

MapPostgresqlType ==
    /\ analysis = None
    /\ \E type_oid \in TypeCodes("_map_postgresql_type") :
          analysis' = Some([op |-> "_map_postgresql_type", arg |-> type_oid,
                            out |-> _map_postgresql_type(type_oid)])
    /\ UNCHANGED <<engine_vars, connector_vars, text>>

\* MongoDBConnector.get_schema on a database of one collection, connected
GetSchema ==
    /\ analysis = None
    /\ \E sample_docs \in SampleDocs :
          analysis' = Some([op |-> "get_schema", arg |-> sample_docs,
                            out |-> [tables |-> <<[tableName |-> "c",
                                                   columns |-> columns(sample_docs)]>>]])
    /\ UNCHANGED <<engine_vars, connector_vars, text>>

\* MongoDBConnector.get_table_info of that collection
GetTableInfo ==
    /\ analysis = None
    /\ \E sample_docs \in SampleDocs :
          analysis' = Some([op |-> "get_table_info", arg |-> sample_docs,
                            out |-> [tableName |-> "c", columns |-> columns(sample_docs)]])
    /\ UNCHANGED <<engine_vars, connector_vars, text>>

NextSchema == MapMySQLType \/ MapSqlServerType \/ MapPostgresqlType \/ GetSchema \/ GetTableInfo

SpecSchema == InitSchema /\ [][NextSchema]_vars

(***************************************************************************)
(* Properties                                                              *)
(***************************************************************************)
Min(a, b) == IF a <= b THEN a ELSE b

Max(a, b) == IF a >= b THEN a ELSE b

Called == pc # "idle"

DangerousStatements == {k \in 1..Len(statements) : is_dangerous_query(statements[k]).is_dangerous}

\* the statements handed to cursor.execute, without the session set-up statement
Dispatched == SelectSeq(calls, LAMBDA c : c.op = "execute" /\ c.arg # SetTimeoutSql)

Refused == pc = "done" /\ raised = "" /\ ret # None /\ ret[1].type = "error" /\ calls = <<>>

\* C1: when a statement of the text is flagged dangerous and confirm_dangerous is
\* false, execute_query returns type=error, isDangerous=true, executionTimeMs=0 with
\* the warnings of every dangerous statement, and makes no driver call at all (no
\* connection opened, no statement dispatched).
C1_DangerousRefused ==
    (Called /\ DangerousStatements # {} /\ ~request.confirm_dangerous)
        => /\ Refused
           /\ ret[1].isDangerous = TRUE
           /\ ret[1].executionTimeMs = 0
           /\ ret[1].warnings # None
           /\ \A k \in DangerousStatements :
                 \A j \in 1..Len(is_dangerous_query(statements[k]).warnings) :
                    \E m \in 1..Len(ret[1].warnings[1]) :
                       ret[1].warnings[1][m] = is_dangerous_query(statements[k]).warnings[j]

\* a text of three statements, the first harmless and the two after it dangerous: the
\* result carries the warnings of both
C1_Witness ==
    /\ Refused
    /\ ~request.confirm_dangerous
    /\ DangerousStatements = {2, 3}
    /\ ret[1].isDangerous
    /\ ret[1].warnings = Some(<<W_TRUNCATE, W_UPDATE>>)

\* C2: when the text splits into more than one statement and allow_multiple is false,
\* execute_query returns type=error and makes no driver call, whatever the statements.
C2_MultipleNeedsOptIn ==
    (Called /\ Len(statements) > 1 /\ ~request.allow_multiple) => Refused

\* harmless statements, refused only for being several
C2_Witness ==
    /\ Refused
    /\ Len(statements) > 1
    /\ ~request.allow_multiple
    /\ DangerousStatements = {}
    /\ ret[1].warnings = Some(<<"Multiple SQL statements found in query">>)

InMulti == Called /\ Len(statements) > 1 /\ request.allow_multiple
           /\ (DangerousStatements = {} \/ request.confirm_dangerous)

FirstError(res) ==
    IF \E k \in 1..Len(res) : res[k].type = "error"
    THEN SetMin({k \in 1..Len(res) : res[k].type = "error"})
    ELSE 0

C5_NeverRaises ==
    pc = "done" =>
        /\ raised = ""
        /\ ret # None
        /\ ret[1].type = "error" => ret[1].message # None

\* the full result set the driver returned to the single statement of the call
FullResult == SelectSeq(calls, LAMBDA c : c.op = "fetchall")[1].arg

SingleSelect == pc = "done" /\ raised = "" /\ ret # None /\ ret[1].type = "select"

PageLength(total_rows, page, page_size) ==
    Min(page_size, Max(0, total_rows - (page - 1) * page_size))

\* C6: for a select-shaped result with page >= 1 and pageSize >= 1 the rows are the
\* elements of the full result at indices [(page-1)*pageSize, page*pageSize) in their
\* order, totalRows is the size of the full result, and
\* rowCount = len(rows) = min(pageSize, max(0, totalRows - (page-1)*pageSize)).
C6_PageSlice ==
    SingleSelect =>
        LET r == ret[1]
            n == PageLength(Len(FullResult), request.page, request.page_size)
        IN  /\ r.totalRows = Some(Len(FullResult))
            /\ r.rowCount = Some(n)
            /\ r.rows # None /\ Len(r.rows[1]) = n
            /\ \A j \in 1..n : r.rows[1][j] = FullResult[(request.page - 1) * request.page_size + j]
            /\ r.page = Some(request.page) /\ r.pageSize = Some(request.page_size)

\* a last page that is only partly filled
C6_Witness ==
    /\ SingleSelect
    /\ request.page = 2 /\ request.page_size = 2
    /\ Len(FullResult) = 3
    /\ ret[1].rows = Some(<<FullResult[3]>>)

\* the least number of pages of page_size rows that hold total_rows rows
Ceil(total_rows, page_size) ==
    SetMin({n \in 0..total_rows : n * page_size >= total_rows})

\* C7: totalPages = max(1, ceil(totalRows / pageSize)) for every select-shaped result;
\* an empty result has one page.
C7_TotalPages ==
    SingleSelect =>
        ret[1].totalPages = Some(Max(1, Ceil(ret[1].totalRows[1], ret[1].pageSize[1])))

C7_Witness ==
    /\ SingleSelect
    /\ ret[1].totalRows = Some(0)
    /\ ret[1].totalPages = Some(1)

RECURSIVE OpenQuote(_, _)
\* the quote character of the span that is open after the first i characters, "" if none
OpenQuote(sql, i) ==
    IF i = 0 THEN ""
    ELSE LET before == OpenQuote(sql, i - 1)
         IN  IF before = "" THEN (IF sql[i] \in QuoteChars THEN sql[i] ELSE "")
             ELSE IF sql[i] = before THEN "" ELSE before

\* the semicolons outside every quoted span
Delimiters(sql) == {i \in 1..Len(sql) : sql[i] = ";" /\ OpenQuote(sql, i - 1) = ""}

\* the segments between consecutive delimiters, and after the last one, in order
Segments(sql) ==
    LET cuts == {0} \cup Delimiters(sql)
        NextCut(c) == SetMin({d \in Delimiters(sql) \cup {Len(sql) + 1} : d > c})
        CutAt[k \in 1..Cardinality(cuts)] ==
            IF k = 1 THEN 0 ELSE SetMin({c \in cuts : c > CutAt[k - 1]})
    IN  [k \in 1..Cardinality(cuts) |-> SubSeq(sql, CutAt[k] + 1, NextCut(CutAt[k]) - 1)]

TrimmedNonEmpty(segments) ==
    LET trimmed == [k \in 1..Len(segments) |-> strip(segments[k])]
    IN  SelectSeq(trimmed, LAMBDA seg : seg # <<>>)

SplitDone == analysis # None /\ analysis[1].op = "split_statements"

\* C8: split_statements returns, in input order, the trimmed non-empty segments of the
\* text delimited by the semicolons outside any quoted span (closed only by the quote
\* character that opened it), including a final segment without semicolon; the
\* example text gives exactly two statements, the first with its ';' intact.
C8_SplitOnUnquotedSemicolons ==
    SplitDone =>
        /\ analysis[1].out = TrimmedNonEmpty(Segments(text))
        /\ text = SplitExample => analysis[1].out = <<<<"S", "E", "L", "E", "C", "T", " ", "'", ";", "'", " ", "A", "S", " ", "a">>, <<"S", "E", "L", "E", "C", "T", " ", "2">>>>

\* a span opened by one quote character that holds another quote character and a
\* semicolon, followed by a last statement without semicolon
C8_Witness ==
    /\ SplitDone
    /\ text = <<"S", "E", "L", "E", "C", "T", " ", "\"", "i", "t", "'", "s", ";", " ", "f", "i", "n", "e", "\"", ";", " ", "x">>
    /\ analysis[1].out = <<<<"S", "E", "L", "E", "C", "T", " ", "\"", "i", "t", "'", "s", ";", " ", "f", "i", "n", "e", "\"">>, <<"x">>>>

CheckDone == analysis # None /\ analysis[1].op = "is_dangerous_query"

C10_UpdateFlaggedIffNoWhere ==
    /\ CheckDone =>
          /\ text \in UpdateAllTexts => analysis[1].out.is_dangerous
          /\ text \in UpdateWhereTexts \cup {S_UPDATE_WHERE} => ~analysis[1].out.is_dangerous
    /\ (pc = "done" /\ request.sql = S_UPDATE_WHERE /\ ~request.confirm_dangerous)
          => ret # None /\ ret[1].type \in {"write", "error"} /\ ret[1].isDangerous = FALSE

\* C4: execute_query of every connector variant never raises: a failure to connect and
\* a driver error while executing are both returned as a result with type=error
\* carrying the message.
C4_ConnectorNeverRaises ==
    c_call.op = "execute_query" =>
        /\ c_call.raised = ""
        /\ c_call.ret # None

\* the warning the specification attaches to each dangerous shape, in the order of
\* DANGEROUS_PATTERNS
ShapeWarning == <<W_DROP, W_DROP, W_TRUNCATE, W_DELETE, W_UPDATE>>

\* C11: whenever is_dangerous_query flags a statement, the warnings contain the warning
\* of every dangerous shape that matched, hence is_dangerous is true if and only if the
\* warnings list is non-empty.
C11_WarningForEveryShape ==
    CheckDone =>
        /\ analysis[1].out.is_dangerous <=> analysis[1].out.warnings # <<>>
        /\ \A k \in 1..Len(DANGEROUS_PATTERNS) :
              re_search(DANGEROUS_PATTERNS[k].re, text)
                 => ShapeWarning[k] \in Range(analysis[1].out.warnings)

DetectDone == analysis # None /\ analysis[1].op = "detect_statement_type"

\* the upper-cased run of word characters at the start of s
LeadingWord(s) ==
    LET stops == {i \in 1..Len(s) : ~IsWord(s[i])} \cup {Len(s) + 1}
    IN  UpperStr(SubSeq(s, 1, SetMin(stops) - 1))

\* s without its leading white space
SkipSpace(s) ==
    LET stops == {i \in 1..Len(s) : ~IsSpace(s[i])} \cup {Len(s) + 1}
    IN  SubSeq(s, SetMin(stops), Len(s))

\* the kind named by the first word of the statement, or by its first two words
KindByWords(sql) ==
    LET body == SkipSpace(sql)
        first == LeadingWord(body)
        after == SubSeq(body, Len(first) + 1, Len(body))
        second == IF after # <<>> /\ IsSpace(after[1]) THEN LeadingWord(SkipSpace(after))
                  ELSE <<>>
    IN  CASE first = <<"S", "E", "L", "E", "C", "T">> -> "select"
          [] first = <<"I", "N", "S", "E", "R", "T">> -> "insert"
          [] first = <<"U", "P", "D", "A", "T", "E">> -> "update"
          [] first = <<"D", "E", "L", "E", "T", "E">> -> "delete"
          [] first = <<"C", "R", "E", "A", "T", "E">> /\ second = <<"T", "A", "B", "L", "E">> -> "create_table"
          [] first = <<"C", "R", "E", "A", "T", "E">> /\ second \in {<<"D", "A", "T", "A", "B", "A", "S", "E">>, <<"S", "C", "H", "E", "M", "A">>} -> "create_database"
          [] first = <<"A", "L", "T", "E", "R">> /\ second = <<"T", "A", "B", "L", "E">> -> "alter_table"
          [] first = <<"D", "R", "O", "P">> /\ second = <<"T", "A", "B", "L", "E">> -> "drop_table"
          [] first = <<"D", "R", "O", "P">> /\ second \in {<<"D", "A", "T", "A", "B", "A", "S", "E">>, <<"S", "C", "H", "E", "M", "A">>} -> "drop_database"
          [] first = <<"T", "R", "U", "N", "C", "A", "T", "E">> -> "truncate"
          [] first = <<"S", "H", "O", "W">> -> "show"
          [] first \in {<<"D", "E", "S", "C">>, <<"D", "E", "S", "C", "R", "I", "B", "E">>} -> "describe"
          [] first = <<"E", "X", "P", "L", "A", "I", "N">> -> "explain"
          [] first = <<"U", "S", "E">> -> "use"
          [] OTHER -> "unknown"

\* C13: detect_statement_type ignores leading white space and letter case and returns
\* the first kind in declaration order whose pattern matches, 'unknown' when none
\* matches; at most one pattern matches any statement.
C13_FirstMatchingKind ==
    DetectDone =>
        LET hits == {k \in 1..Len(STATEMENT_PATTERNS) :
                        re_match(STATEMENT_PATTERNS[k].re, UpperStr(strip(text)))}
        IN  /\ Cardinality(hits) <= 1
            /\ analysis[1].out = KindByWords(text)
            /\ analysis[1].out = detect_statement_type(UpperStr(text))
            /\ analysis[1].out = detect_statement_type(<<" ", "\n">> \o text)

\* a two-word kind written in mixed case after leading white space
C13_Witness ==
    /\ DetectDone
    /\ text = <<" ", "C", "r", "e", "a", "t", "e", " ", "S", "c", "h", "e", "m", "a", " ", "d">>
    /\ analysis[1].out = "create_database"

Returned == pc = "done" /\ raised = "" /\ ret # None

\* C12: a query with a dangerous statement executed with confirm_dangerous=true returns
\* a result with isDangerous=true and the warnings collected for its dangerous
\* statements, as a single statement and as the top-level result of several statements.
C12_ConfirmedStaysMarked ==
    (Returned /\ DangerousStatements # {} /\ request.confirm_dangerous
       /\ (Len(statements) > 1 => request.allow_multiple))
        => /\ ret[1].isDangerous = TRUE
           /\ ret[1].warnings = Some(AllWarnings(statements).all_warnings)

SelectFields == {"columns", "rows", "rowCount", "totalRows", "page", "pageSize", "totalPages"}

MultiDone == Returned /\ ret[1].type = "multi"

\* C17: in a type=multi result the top-level columns, rows, rowCount, totalRows, page,
\* pageSize and totalPages equal those of the last executed sub-result when it has
\* type=select, and are all absent otherwise, also when an error ended the sequence.
C17_MultiSurfacesLastSelect ==
    MultiDone =>
        LET subs == ret[1].results[1]
            last == subs[Len(subs)]
        IN  /\ subs = results
            /\ \A field \in SelectFields :
                  ret[1][field] = (IF last.type = "select" THEN last[field] ELSE None)
            /\ last.type = "select" => \A field \in SelectFields : ret[1][field] # None

\* the last statement is a select of the second page
C17_Witness ==
    /\ MultiDone
    /\ Len(results) = Len(statements)
    /\ results[Len(results)].type = "select"
    /\ ret[1].page = Some(2)
    /\ ret[1].rows # None /\ ret[1].rows[1] # <<>>
    /\ ret[1].rows = results[Len(results)].rows

\* every leaf result the call produced: its sub-results, or the result itself
Leaves ==
    IF ~Returned THEN {}
    ELSE IF ret[1].type = "multi" THEN Range(ret[1].results[1])
    ELSE {ret[1]}

HasTable(r) == r.columns # None /\ r.rows # None

HasAffected(r) == r.affectedRows # None

IsError(r) == r.type = "error"

\* C19: every leaf (non-multi) result satisfies exactly one of: columns and rows are
\* present; affectedRows is present; type is error; for every statement kind and every
\* row count the driver reports, a negative one included.
C19_LeafExactlyOneShape ==
    \A r \in Leaves :
        Cardinality({shape \in {"table", "affected", "error"} :
                        \/ shape = "table" /\ HasTable(r)
                        \/ shape = "affected" /\ HasAffected(r)
                        \/ shape = "error" /\ IsError(r)}) = 1

RoundTrip == Join(<<S_CREATE, S_INSERT_T, S_SELECT_T>>)

\* the error messages of a connection or driver failure, as opposed to the server
\* rejecting the statement
Faults ==
    {Some(<<"connect_error">>), Some(<<"timeout_error">>), Some(<<"execute_error">>),
     Some(<<"commit_error">>), Some(<<"Unexpected error: ", "unexpected_error">>)}

NoFault == \A k \in 1..Len(results) : results[k].message \notin Faults

\* C18: on a database without table t, CREATE TABLE t(id INT), INSERT INTO t VALUES (1),
\* SELECT * FROM t executed as three statements with allow_multiple=true return a
\* type=multi result with three sub-results, the last one type=select with exactly the
\* row [1]: the effect of each statement is committed and visible to the next.
C18_RoundTrip ==
    (pc = "done" /\ request.sql = RoundTrip /\ request.allow_multiple /\ request.page = 1
       /\ NoFault)
        => /\ Returned
           /\ ret[1].type = "multi"
           /\ Len(ret[1].results[1]) = 3
           /\ ret[1].results[1][1].type = "ddl"
           /\ ret[1].results[1][2].type = "write"
           /\ ret[1].results[1][2].affectedRows = Some(1)
           /\ ret[1].results[1][3].type = "select"
           /\ ret[1].results[1][3].rows = Some(<<<<1>>>>)
           /\ ret[1].results[1][3].totalRows = Some(1)
           /\ ret[1].rows = Some(<<<<1>>>>)
           /\ tables = Some(<<<<1>>>>)

C18_Witness ==
    /\ Returned
    /\ request.sql = RoundTrip /\ request.allow_multiple /\ request.page = 1
    /\ NoFault
    /\ Len(ret[1].results[1]) = 3
    /\ ret[1].results[1][3].rows = Some(<<<<1>>>>)

\* the connector holds a handle whose driver connection is open
Connected == connector.connection # None /\ connector.connection[1] \in driver.live

\* C14: for every variant and every prior state, test_connection() leaves the state of
\* the connector unchanged: it neither sets, closes nor clears the cached handle,
\* whether the probe succeeds or fails.
C14_TestConnectionFrame ==
    [][TestConnection => (connector' = connector /\ driver'.live = driver.live)]_vars

C16_DisconnectClears ==
    /\ [](c_call.op = "disconnect" =>
            /\ c_call.raised = ""
            /\ connector.connection = None
            /\ driver.live = {})
    /\ [][(c_call.op = "disconnect" /\ Disconnect)
              => (connector' = connector /\ driver' = driver)]_vars

\* C20: for every relational variant execute_query of a write statement returns
\* type=write with affectedRows equal to the row count the driver reported when it is
\* non-negative, and 0 when the driver reported a negative count.
C20_AffectedRowsNeverNegative ==
    (c_call.op = "execute_query" /\ connector.kind \in Relational /\ c_call.ret # None
       /\ c_call.ret[1].type = "write")
        => /\ c_call.reported # None
           /\ c_call.ret[1].affectedRows =
                 (IF c_call.reported[1] >= 0 THEN c_call.reported[1] ELSE 0)

\* C21: a relational connector's execute_query answers every SELECT-like statement
\* (SELECT, SHOW, DESCRIBE, EXPLAIN) the server carried out with type=select and all
\* the rows, and never treats it as a write: no commit, no affectedRows.
C21_SelectLikeNeverWrite ==
    (c_call.op = "execute_query" /\ connector.kind \in Relational /\ c_call.ret # None
       /\ c_call.reported # None /\ IsSelectKind(detect_statement_type(c_call.sql)))
        => /\ c_call.ret[1].type = "select"
           /\ c_call.ret[1].rowCount = Len(c_call.ret[1].rows)
           /\ "affectedRows" \notin DOMAIN c_call.ret[1]
           /\ ~c_call.committed

MapDone == analysis # None /\ analysis[1].op \in Mappers

\* C22: every relational type mapper returns the canonical uppercase name for a code
\* of its mapping and the sentinel UNKNOWN(<code>) for any other code; it never raises.
C22_UnknownCodeSentinel ==
    MapDone =>
        LET call == analysis[1]
            mapping == MappingOf(call.op)
        IN  IF call.arg \in Keys(mapping)
            THEN <<call.arg, call.out>> \in mapping /\ call.out = UpperStr(call.out)
            ELSE call.out = Unknown(call.arg)

SchemaDone == analysis # None /\ analysis[1].op \in {"get_schema", "get_table_info"}

\* the columns reported for the collection
InferredColumns ==
    IF analysis[1].op = "get_schema" THEN analysis[1].out.tables[1].columns
    ELSE analysis[1].out.columns

\* the sampled documents in which the field has a non-null value
NonNull(sample_docs, field) ==
    {i \in 1..Len(sample_docs) :
        field \in DOMAIN sample_docs[i] /\ sample_docs[i][field] # "NoneType"}

\* C23: MongoDB schema inference reports one column per field name seen in any sampled
\* document, typed from the first sampled document where the field is non-null, and
\* with the mixed marker only when no sampled document has a non-null value for it.
C23_TypeFromFirstNonNull ==
    SchemaDone =>
        LET sample_docs == analysis[1].arg
            cols == InferredColumns
            names == UNION {DOMAIN sample_docs[i] : i \in 1..Len(sample_docs)}
        IN  /\ {cols[k].name : k \in 1..Len(cols)} = names
            /\ Len(cols) = Cardinality(names)
            /\ \A k \in 1..Len(cols) :
                  LET nonnull == NonNull(sample_docs, cols[k].name)
                  IN  /\ nonnull # {} =>
                            cols[k].type =
                                field_type_of(sample_docs[SetMin(nonnull)][cols[k].name])
                      /\ cols[k].type = "Mixed" <=> nonnull = {}

\* a step of one of the calls that go through self.connect()
ConnectingCall ==
    /\ c_call'.op \in {"connect", "execute_query", "get_schema", "get_table_info"}
    /\ ~ServerDrops

MssqlConnectDone == c_call.op = "connect" /\ connector.kind = "mssql" /\ ~c_call.reused

\* the position of a driver in a list without repetitions, 0 if it is not in it
Position(list, d) ==
    IF d \in Range(list) THEN CHOOSE i \in 1..Len(list) : list[i] = d ELSE 0

\* C25: MSSQLConnector.connect() on a Disconnected connector tries the candidate
\* drivers one after another in priority order, at most twice each with one second
\* between the two attempts, stops at the first success, and when every candidate
\* failed raises ConnectionError naming every attempted driver and the last error;
\* it never makes more than twice as many attempts as there are candidates.
C25_DriversInTurn ==
    MssqlConnectDone =>
        LET out == c_call.connecting[1]
            log == out.log
            cand == out.candidates
            on == [k \in 1..Len(log) |-> Position(cand, log[k].driver)]
        IN  /\ cand # <<>>
            /\ \A i, j \in 1..Len(cand) :
                  (i < j /\ cand[i] \in Range(odbc_drivers) /\ cand[j] \in Range(odbc_drivers))
                      => Position(odbc_drivers, cand[i]) < Position(odbc_drivers, cand[j])
            /\ Len(log) >= 1 /\ on[1] = 1
            /\ \A k \in 2..Len(log) :
                  \/ on[k] = on[k - 1] /\ log[k - 1].attempt = 0 /\ log[k].attempt = 1
                  \/ on[k] = on[k - 1] + 1 /\ log[k].attempt = 0
            /\ \A i \in 1..Len(cand) : Cardinality({k \in 1..Len(log) : on[k] = i}) <= 2
            /\ out.slept = Cardinality({k \in 2..Len(log) : on[k] = on[k - 1]})
            /\ \A k \in 1..Len(log) : log[k].outcome = "ok" => k = Len(log)
            /\ c_call.raised = "" <=> log[Len(log)].outcome = "ok"
            /\ c_call.raised = "" => connector.connection = c_call.ret /\ c_call.ret # None
            /\ c_call.raised # "" =>
                  /\ c_call.raised = "ConnectionError"
                  /\ {log[k].driver : k \in 1..Len(log)} = Range(cand)
                  /\ out.message # None
                  /\ out.message[1].tried_drivers = cand
                  /\ out.message[1].last_error = Some(Len(log))
            /\ Len(log) <= 2 * Len(cand)

\* both installed drivers were tried twice, the newer one first, and connect() raised
C25_Witness ==
    /\ MssqlConnectDone
    /\ c_call.raised = "ConnectionError"
    /\ c_call.connecting[1].candidates =
          <<"ODBC Driver 18 for SQL Server", "SQL Server">>
    /\ Len(c_call.connecting[1].log) = 4
    /\ c_call.connecting[1].slept = 2
    /\ connector.connection = None

\* a connect() of the MongoDB variant with credentials that got past the
\* unauthenticated ping
MongoAuthDone ==
    /\ c_call.op = "connect" /\ connector.kind = "mongodb" /\ connector.credentials
    /\ ~c_call.reused
    /\ c_call.connecting[1].attempts >= 2

\* C26: with credentials and no explicit auth source, MongoDBConnector.connect()
\* authenticates against the target database first and "admin" second, uses the first
\* source that authenticates, and connects unauthenticated only after both failed.
C26_TargetDatabaseFirst ==
    MongoAuthDone =>
        LET out == c_call.connecting[1]
            log == out.log
        IN  /\ Len(log) \in 1..2
            /\ log[1].source = Database
            /\ Len(log) = 2 => log[2].source = "admin"
            /\ \A k \in 1..Len(log) : log[k].outcome = "ok" => k = Len(log)
            /\ out.auth_source =
                  (IF log[Len(log)].outcome = "ok" THEN Some(log[Len(log)].source) ELSE None)
            /\ out.auth_source = None => Len(log) = 2

\* the connections execute_query has opened and not closed
OpenConnections(log) ==
    Len(SelectSeq(log, LAMBDA c : c.op = "connect"))
    - Len(SelectSeq(log, LAMBDA c : c.op = "close"))

\* C27: the engine holds no connection between two statements and none once
\* execute_query is over, whatever the outcome of the statement: every connection it
\* opened has been closed, and each one before the next is opened.
C27_OneConnectionAtATime ==
    /\ pc \in {"multi", "multi_return", "done"} => OpenConnections(calls) = 0
    /\ \A k \in 1..Len(calls) : OpenConnections(SubSeq(calls, 1, k)) \in {0, 1}

\* C28: a connect() that raised ConnectionError leaves no handle that the next
\* connect() would return without a new connection attempt.
C28_FailedConnectDisconnected ==
    (c_call.op = "connect" /\ c_call.raised = "ConnectionError") =>
        /\ ~HandleReused(connector, driver)
        /\ connector.connection # None => connector.connection[1] \notin driver.live

FetchedKinds == {"select", "show", "describe", "explain"}

WriteKinds == {"insert", "update", "delete"}

\* the result type the statement kind stands for
TypeOfKind(kind) ==
    IF kind \in FetchedKinds THEN "select" ELSE IF kind \in WriteKinds THEN "write" ELSE "ddl"

Ops(log) == {log[k].op : k \in 1..Len(log)}

\* execute_query has returned the result of the single statement of the text, which
\* executed without error
SingleDone ==
    /\ pc = "done" /\ raised = "" /\ ret # None
    /\ Len(statements) = 1
    /\ ret[1].type # "error"

\* C29: a statement that executes without error is fetched and returned as
\* type=select when its kind is select, show, describe or explain; executed,
\* committed and returned as type=write when its kind is insert, update or delete;
\* and executed, committed and returned as type=ddl without rows for every other kind,
\* 'unknown' included.  The same holds for each result of a multi-statement call.
C29_KindToPath ==
    /\ SingleDone =>
          LET kind == detect_statement_type(statements[1])
              r == ret[1]
          IN  /\ r.queryType = Some(kind)
              /\ r.type = TypeOfKind(kind)
              /\ kind \in FetchedKinds =>
                    /\ "fetchall" \in Ops(calls) /\ "commit" \notin Ops(calls)
                    /\ r.rows # None /\ r.columns # None
              /\ kind \notin FetchedKinds =>
                    /\ "commit" \in Ops(calls) /\ "fetchall" \notin Ops(calls)
                    /\ r.rows = None /\ r.columns = None /\ r.totalRows = None
    /\ (InMulti /\ raised = "") =>
          \A k \in 1..Len(results) :
              results[k].type # "error" =>
                  /\ results[k].type = TypeOfKind(detect_statement_type(statements[k]))
                  /\ results[k].type # "select" => results[k].rows = None

\* a statement of no known kind went down the write path and came back as ddl
C29_Witness ==
    /\ SingleDone
    /\ statements = <<S_SET>>
    /\ detect_statement_type(S_SET) = "unknown"
    /\ ret[1].type = "ddl"
    /\ ret[1].queryType = Some("unknown")
    /\ ret[1].rows = None
    /\ calls[Len(calls) - 1].op = "commit"

\* the committed contents after the first k statements, those that failed left out
RECURSIVE EffectsOf(_, _, _)
EffectsOf(stmts, res, k) ==
    IF k = 0 THEN None
    ELSE IF res[k].type = "error" THEN EffectsOf(stmts, res, k - 1)
    ELSE Effect(stmts[k], EffectsOf(stmts, res, k - 1))

\* the commits and the closes among the driver calls, in order
CommitsAndCloses == SelectSeq(calls, LAMBDA c : c.op \in {"connect", "commit", "close"})

\* C30: in a multi-statement execution every statement that succeeded is committed
\* on its own connection before the next one starts; after a failure of statement k
\* the database holds what statements 1..k-1 did (and, when k is a data definition
\* statement that the server had already carried out, what k did), and the statements
\* after k are not run.
C30_NotAtomic ==
    (InMulti /\ raised = "") =>
        LET n == Len(results)
            failed == FirstError(results) # 0
            before == EffectsOf(statements, results, n)
            cc == CommitsAndCloses
        IN  /\ \/ tables = before
               \/ /\ failed
                  /\ ImplicitCommit(detect_statement_type(statements[n]))
                  /\ tables = Effect(statements[n], before)
            /\ Len(Dispatched) <= n
            /\ \A k \in 1..n :
                  (results[k].type # "error"
                   /\ detect_statement_type(statements[k]) \notin FetchedKinds) =>
                      \E j \in 1..(Len(cc) - 2) :
                          /\ Cardinality({i \in 1..j : cc[i].op = "connect"}) = k
                          /\ cc[j].op = "connect"
                          /\ cc[j + 1].op = "commit"
                          /\ cc[j + 2].op = "close"

\* the second of three statements failed: the table the first one created is there,
\* empty, and the third statement was never run
C30_Witness ==
    /\ pc = "done" /\ InMulti /\ raised = ""
    /\ statements = <<S_CREATE, S_INSERT_T, S_SELECT_T>>
    /\ Len(results) = 2
    /\ results[1].type = "ddl"
    /\ results[2].type = "error"
    /\ tables = Some(<<>>)
    /\ Len(Dispatched) = 2
=============================================================================
